---- MODULE Spec2Model ----
(***************************************************************************)
(* Task collection and mode interpretation of the test runner             *)
(* (packages/runner/src/utils/collect.ts, packages/runner/src/collect.ts).*)
(*                                                                         *)
(* A File tree is a heap of task objects.  Object 0 is the File, objects   *)
(* 1..n are the registered tasks in registration (declaration) order.     *)
(* Every field of a task is a function over the objects: tasks[o] is the   *)
(* ordered child array of o, suite[o] the back-reference to the parent.    *)
(* Strings (names, ids, patterns, paths) are sequences of characters.       *)
(***************************************************************************)
EXTENDS Integers, Sequences, FiniteSets, TLC

VARIABLES
    tasks,        \* o -> sequence of child objects       (Suite.tasks)
    type,         \* o -> "suite" | "test" | "custom"     (Task.type)
    mode,         \* o -> "run" | "skip" | "only" | "todo" (Task.mode)
    name,         \* o -> string                           (Task.name)
    suite,        \* o -> parent suite object or NoSuite   (Task.suite)
    result,       \* o -> NoResult or [state, errors]      (Task.result)
    id,           \* o -> string                           (Task.id)
    declared,     \* o -> the mode the task was registered with
    pc,           \* position of the collection pass
    namePattern,  \* arguments of the last interpretTaskModes call
    onlyMode,
    allowOnly,
    reached,      \* the tasks the forEach of that call processed
    str,          \* argument of generateHash
    hashOut,      \* results of the generateHash calls made on str, oldest first
    files,        \* the Files createFileTask returned, oldest first
    createArgs,   \* the arguments of those createFileTask calls
    prevId,       \* the ids before the last calculateSuiteHash call
    edit,         \* what was done to the tree since the call before that
    paths,        \* the argument of collectTests
    thrown,       \* what the try block of the current file threw, if anything
    invalidates,  \* Vitest.invalidates
    changedTests, \* Vitest.changedTests, in insertion order
    watchedTests, \* Vitest.watchedTests
    filenamePattern, \* Vitest.filenamePattern
    runningPromise,  \* Vitest.runningPromise: a run or NoPromise
    restartsCount,   \* Vitest.restartsCount
    rerunTimer,   \* Vitest._rerunTimer: the handle of the last timeout set
    timers,       \* the armed timeouts: handle -> [count, trigger]
    graph,        \* the projects' module graphs and the state's files map
    frames,       \* the suspended async calls: frame -> [kind, pc, ...]
    micro,        \* the microtask queue: frames to resume, oldest first
    runs,         \* the run bodies in flight: run -> [kind, pc, files, waiters]
    batches,      \* the rerun batches the timer callbacks submitted
    calls,        \* how many events, API calls and restarts happened
    unhandledErrors,   \* the state's unhandled errors (state.catchError)
    isCancelling,      \* Vitest.isCancelling
    onCancelListeners, \* Vitest._onCancelListeners, oldest first
    invoked,      \* the cancellation listeners invoked so far, oldest first
    settled,      \* how the promises of the finished API calls settled
    registered,   \* the listeners onCancel got since the last run started
    collectorContext \* what the file registered: defaultTasks.tasks, then
                  \* collectorContext.tasks, the loop index and fileHooks

treeVars == <<tasks, type, mode, name, suite, result, id, declared>>
callVars == <<namePattern, onlyMode, allowOnly, reached>>
hashVars == <<str, hashOut>>
fileVars == <<files, createArgs>>
idVars == <<prevId, edit>>
batchVars == <<paths, thrown, collectorContext>>
coreVars == <<invalidates, changedTests, watchedTests, filenamePattern,
              runningPromise, restartsCount, rerunTimer, timers, graph, frames,
              micro, runs, batches, calls>>
poolVars == <<unhandledErrors, isCancelling, onCancelListeners, invoked, settled,
              registered>>
\* what an action on one File tree leaves alone
outerVars == <<batchVars, coreVars, poolVars>>
\* what an action of the Vitest class leaves alone
collectVars == <<treeVars, pc, callVars, hashVars, fileVars, idVars, batchVars>>

vars == <<tasks, type, mode, name, suite, result, id, declared, pc,
          namePattern, onlyMode, allowOnly, reached, str, hashOut, files, createArgs,
          prevId, edit, paths, thrown, invalidates, changedTests, watchedTests,
          filenamePattern, runningPromise, restartsCount, rerunTimer, timers,
          graph, frames, micro, runs, batches, calls, unhandledErrors,
          isCancelling, onCancelListeners, invoked, settled, registered,
          collectorContext>>

----------------------------------------------------------------------------
(* Bounds of the model *)

\* registered tasks per File in the general mode specification
MaxTasks == 4
\* length of the strings handed to generateHash
MaxStrLen == 7
\* createFileTask calls of one collection batch
MaxFiles == 2
\* registered tasks per File in the id specification
MaxHashTasks == 4
\* registered tasks per File in the name filter specification
MaxNameTasks == 3
\* registered tasks per File in the only scenario specification
MaxScenarioTasks == 5

----------------------------------------------------------------------------
(* Values *)

File == 0
NoSuite == -1
\* the internal default suite object the top-level tasks refer to
DefaultSuite == -2
NoResult == [state |-> "none", errors |-> <<>>]
NoString == <<>>
NoEdit == [kind |-> "none", a |-> File, b |-> File]
\* the try block of collectTests ran to its end
NoThrow == [phase |-> "none", tasks |-> <<>>]
\* clearCollectorContext: nothing registered, no hooks
NoContext == [defaultTasks |-> <<>>, tasks |-> <<>>, index |-> 0, fileHooks |-> <<>>]
\* runningPromise is undefined
NoPromise == 0
\* _rerunTimer is undefined
NoTimer == 0
\* filenamePattern is undefined (or the empty string)
NoPattern == ""
\* an importer module without file metadata
NoFile == "nofile"
\* unlinked: the files unlinked with no add event since
NoCalls == [events |-> 0, api |-> 0, restarts |-> 0, throws |-> 0, cancels |-> 0,
            listeners |-> 0, unlinked |-> {}]
\* one project whose two test files are loaded and imported by nothing
WatchTests == {"t1", "t2"}
WatchGraph ==
    [tests |-> <<WatchTests>>,
     mods |-> <<WatchTests>>,
     importers |-> <<[f \in WatchTests |-> <<>>]>>,
     filesMap |-> WatchTests,
     filepaths |-> <<"t1", "t2">>,
     triggers |-> {}]
\* an absent optional string argument (projectName, pool)
Undefined == <<"undefined">>

Objs == DOMAIN type
Tasks == Objs \ {File}
NumTasks == Cardinality(Objs) - 1

RunModes == {"run", "skip", "only", "todo"}

----------------------------------------------------------------------------
(* The tree *)

Children(o) == {tasks[o][i] : i \in 1..Len(tasks[o])}

RECURSIVE Descendants(_)
Descendants(o) ==
    Children(o) \cup UNION {Descendants(c) : c \in Children(o)}

\* the owning suite of a task (the File for a top-level task)
Parent(o) == CHOOSE p \in Objs : o \in Children(p)

RECURSIVE Ancestors(_)
Ancestors(o) ==
    IF o = File THEN {} ELSE {Parent(o)} \cup Ancestors(Parent(o))

\* the suites still open while the declaring code runs: the last registered
\* task and its ancestors
OpenSuites ==
    IF NumTasks = 0 THEN {File}
    ELSE {s \in {NumTasks} \cup Ancestors(NumTasks) : type[s] = "suite"}

----------------------------------------------------------------------------
(* Registration: the declaring code of the file runs and every describe /  *)
(* test call appends one task to the suite that is open at that point.     *)
(* collectTests appends the resulting top-level tasks to file.tasks and    *)
(* deletes their back-reference to the internal default suite.             *)

RegisterTask(p, ty, m, nm) ==
    LET o == NumTasks + 1 IN
    /\ tasks' = [q \in Objs \cup {o} |->
                    IF q = o THEN <<>>
                    ELSE IF q = p THEN Append(tasks[p], o) ELSE tasks[q]]
    /\ type' = (o :> ty) @@ type
    /\ mode' = (o :> m) @@ mode
    /\ declared' = (o :> m) @@ declared
    /\ name' = (o :> nm) @@ name
    /\ suite' = (o :> (IF p = File THEN NoSuite ELSE p)) @@ suite
    /\ result' = (o :> NoResult) @@ result
    /\ id' = (o :> NoString) @@ id

----------------------------------------------------------------------------
(* interpretTaskModes and its helpers.  The heap fields the call mutates   *)
(* (mode, result) are threaded through as the record st, together with     *)
(* the set of tasks the traversal has processed so far.                    *)

\* the name of the task alone, without the names of its suites
getTaskFullNameOwn(t) == name[t]

\* `${task.suite ? `${getTaskFullName(task.suite)} ` : ''}${task.name}`
RECURSIVE getTaskFullName(_)
getTaskFullName(t) ==
    IF suite[t] # NoSuite
    THEN getTaskFullName(suite[t]) \o <<" ">> \o name[t]
    ELSE name[t]

\* String.prototype.match with a pattern of literal characters: the pattern
\* occurs somewhere in the string
Matches(text, pat) ==
    \E i \in 0..(Len(text) - Len(pat)) : SubSeq(text, i + 1, i + Len(pat)) = pat

\* namePattern && !getTaskFullName(t).match(namePattern)
FailsNamePattern(t, pat) ==
    /\ pat # NoString
    /\ ~Matches(getTaskFullName(t), pat)

RECURSIVE someTasksAreOnlyIn(_, _)
someTasksAreOnlyIn(md, s) ==
    \E i \in 1..Len(tasks[s]) :
        LET t == tasks[s][i] IN
        \/ md[t] = "only"
        \/ (type[t] = "suite" /\ someTasksAreOnlyIn(md, t))

someTasksAreOnly(s) == someTasksAreOnlyIn(mode, s)

\* skipAllTasks flipping every task, whatever its mode
SkipsTaskAlways(m) == TRUE

\* if (t.mode === 'run'): only a task that is still `run` is flipped
SkipsTask(m) == m = "run"

\* skipAllTasks without its recursive call
SkipDescendsNever(ty) == FALSE

\* if (t.type === 'suite'): a flipped suite is descended into
SkipDescends(ty) == ty = "suite"

RECURSIVE skipAllTasksFrom(_, _, _)
skipAllTasksFrom(md, s, i) ==
    IF i > Len(tasks[s]) THEN md
    ELSE LET t == tasks[s][i] IN
         IF SkipsTask(md[t])
         THEN LET m1 == [md EXCEPT ![t] = "skip"]
                  m2 == IF SkipDescends(type[t])
                        THEN skipAllTasksFrom(m1, t, 1) ELSE m1
              IN  skipAllTasksFrom(m2, s, i + 1)
         ELSE skipAllTasksFrom(md, s, i + 1)

skipAllTasks(md, s) == skipAllTasksFrom(md, s, 1)

OnlyError == [state |-> "fail", errors |-> <<"Unexpected .only modifier">>]

\* checkAllowOnly with its guard inverted
checkAllowOnlyInverted(res, t, allow) ==
    IF ~allow THEN res ELSE [res EXCEPT ![t] = OnlyError]

checkAllowOnly(res, t, allow) ==
    IF allow THEN res ELSE [res EXCEPT ![t] = OnlyError]

\* const includeTask = suiteIsOnly || t.mode === 'only'
IncludeTask(suiteIsOnly, m) == suiteIsOnly \/ m = "only"

\* else if (t.mode === 'run' && !includeTask)
Demotes(m, includeTask) == m = "run" /\ ~includeTask

\* the suite test without `|| someTasksAreOnly(t)`
KeepsSuiteIncludedOnly(md, t, includeTask) == type[t] = "suite" /\ includeTask

\* if (t.type === 'suite' && (includeTask || someTasksAreOnly(t)))
KeepsSuite(md, t, includeTask) ==
    type[t] = "suite" /\ (includeTask \/ someTasksAreOnlyIn(md, t))

\* the `if (onlyMode) { ... }` block applied to child t
OnlyRules(st, t, includeTask, allow) ==
    IF KeepsSuite(st.mode, t, includeTask)
    THEN IF st.mode[t] = "only"
         THEN [st EXCEPT !.mode[t] = "run",
                         !.result = checkAllowOnly(st.result, t, allow)]
         ELSE st
    ELSE IF Demotes(st.mode[t], includeTask)
    THEN [st EXCEPT !.mode[t] = "skip"]
    ELSE IF st.mode[t] = "only"
    THEN [st EXCEPT !.mode[t] = "run",
                    !.result = checkAllowOnly(st.result, t, allow)]
    ELSE st

\* every(i => i.mode === 'skip') in place of every(i => i.mode !== 'run')
AllSubtasksSkippedStrict(md, s) ==
    /\ Len(tasks[s]) # 0
    /\ \A i \in 1..Len(tasks[s]) : md[tasks[s][i]] = "skip"

\* if (suite.tasks.length && suite.tasks.every(i => i.mode !== 'run'))
AllSubtasksSkipped(md, s) ==
    /\ Len(tasks[s]) # 0
    /\ \A i \in 1..Len(tasks[s]) : md[tasks[s][i]] # "run"

\* the trailing block without its test of suite.mode
CollapseSuiteAnyMode(md, s) ==
    IF AllSubtasksSkipped(md, s) THEN [md EXCEPT ![s] = "skip"] ELSE md

\* the trailing `if (suite.mode === 'run')` block
CollapseSuite(md, s) ==
    IF md[s] = "run" /\ AllSubtasksSkipped(md, s)
    THEN [md EXCEPT ![s] = "skip"]
    ELSE md

RECURSIVE interpretFrom(_, _, _, _, _, _, _)
RECURSIVE interpretTaskModes(_, _, _, _, _, _)
\* the forEach of interpretTaskModes from child index i on
interpretFrom(st, s, i, suiteIsOnly, pat, only, allow) ==
    IF i > Len(tasks[s]) THEN st
    ELSE
      LET t == tasks[s][i]
          includeTask == IncludeTask(suiteIsOnly, st.mode[t])
          s0 == [st EXCEPT !.reached = @ \cup {t}]
          s1 == IF only THEN OnlyRules(s0, t, includeTask, allow) ELSE s0
          s2 == IF type[t] = "test"
                THEN IF FailsNamePattern(t, pat)
                     THEN [s1 EXCEPT !.mode[t] = "skip"]
                     ELSE s1
                ELSE IF type[t] = "suite"
                THEN IF s1.mode[t] = "skip"
                     THEN [s1 EXCEPT !.mode = skipAllTasks(s1.mode, t)]
                     ELSE interpretTaskModes(s1, t, pat, only, includeTask, allow)
                ELSE s1
      IN  interpretFrom(s2, s, i + 1, suiteIsOnly, pat, only, allow)

interpretTaskModes(st, s, pat, only, parentIsOnly, allow) ==
    LET s3 == interpretFrom(st, s, 1, IncludeTask(parentIsOnly, st.mode[s]),
                            pat, only, allow)
    IN  [s3 EXCEPT !.mode = CollapseSuite(s3.mode, s)]


----------------------------------------------------------------------------
(* generateHash.  JavaScript numbers are doubles and the bit operators     *)
(* work on their 32-bit two's complement value; the arithmetic below is    *)
(* done on 16-bit halves so that no intermediate value leaves 32 bits.     *)

\* String.prototype.charCodeAt for the characters the model uses
CharCode ==
    ("a" :> 97) @@ ("b" :> 98) @@ ("p" :> 112) @@ ("r" :> 114) @@ ("s" :> 115)
    @@ ("z" :> 122) @@ ("/" :> 47) @@ ("." :> 46) @@ ("~" :> 126)

Lo16(h) == h % (2^16)
Hi16(h) == (h \div (2^16)) % (2^16)

\* the signed 32-bit integer with the given halves (ToInt32)
FromHalves(hi, lo) == (IF hi >= 2^15 THEN hi - 2^16 ELSE hi) * (2^16) + lo

\* hash << 4
ShiftLeft4(h) ==
    LET x == Lo16(h) * 16
    IN  FromHalves((Hi16(h) * 16 + x \div (2^16)) % (2^16), x % (2^16))

\* hash << 5
ShiftLeft5(h) ==
    LET x == Lo16(h) * 32
    IN  FromHalves((Hi16(h) * 32 + x \div (2^16)) % (2^16), x % (2^16))

\* hash = (hash << 5) - hash + char ; hash = hash & hash
HashStep(hash, char) ==
    LET sh == ShiftLeft5(hash)
        lo == Lo16(sh) - Lo16(hash) + char
        hi == Hi16(sh) - Hi16(hash) + lo \div (2^16)
    IN  FromHalves(hi % (2^16), lo % (2^16))

Digit == <<"0", "1", "2", "3", "4", "5", "6", "7", "8", "9">>

\* `${n}` for n >= 0
RECURSIVE NatToString(_)
NatToString(n) ==
    IF n < 10 THEN <<Digit[n + 1]>>
    ELSE Append(NatToString(n \div 10), Digit[(n % 10) + 1])

\* the digits of -n for n < 0, computed on the negative side (-(-2^31) is
\* not a 32-bit value)
RECURSIVE NegDigits(_)
NegDigits(n) ==
    LET r == n % 10
        d == IF r = 0 THEN 0 ELSE 10 - r
        q == IF r = 0 THEN n \div 10 ELSE n \div 10 + 1
    IN  IF q = 0 THEN <<Digit[d + 1]>> ELSE Append(NegDigits(q), Digit[d + 1])

\* `${hash}`
NumberToString(n) == IF n < 0 THEN <<"-">> \o NegDigits(n) ELSE NatToString(n)

RECURSIVE hashLoop(_, _, _)
hashLoop(s, i, hash) ==
    IF i > Len(s) THEN hash
    ELSE hashLoop(s, i + 1, HashStep(hash, CharCode[s[i]]))

generateHash(s) ==
    IF Len(s) = 0 THEN NumberToString(0)
    ELSE NumberToString(hashLoop(s, 1, 0))

----------------------------------------------------------------------------
(* createFileTask *)

\* pathe's relative(root, filepath) for a file below the root directory
relative(root, filepath) ==
    IF /\ Len(filepath) > Len(root) + 1
       /\ SubSeq(filepath, 1, Len(root) + 1) = root \o <<"/">>
    THEN SubSeq(filepath, Len(root) + 2, Len(filepath))
    ELSE filepath

\* projectName || ''
OrEmpty(projectName) ==
    IF projectName = Undefined \/ projectName = NoString THEN NoString
    ELSE projectName

\* the absolute path hashed in place of the root-relative one
FileIdSourceAbsolute(filepath, root, projectName) ==
    filepath \o OrEmpty(projectName)

\* the string createFileTask hashes into the File id
FileIdSource(filepath, root, projectName) ==
    relative(root, filepath) \o OrEmpty(projectName)

\* self is the identity of the object the call allocates
createFileTask(filepath, root, projectName, pool, self) ==
    [id          |-> generateHash(FileIdSource(filepath, root, projectName)),
     name        |-> relative(root, filepath),
     type        |-> "suite",
     mode        |-> "run",
     filepath    |-> filepath,
     tasks       |-> <<>>,
     projectName |-> projectName,
     file        |-> self,
     pool        |-> pool]

----------------------------------------------------------------------------
(* calculateSuiteHash *)

\* `${file.id}_${idx}`: the id of the File in place of the parent's
ChildIdFromFile(parentId, idx) == id[File] \o <<"_">> \o NumberToString(idx)

\* `${parent.id}_`: the index left out
ChildIdNoIndex(parentId, idx) == parentId \o <<"_">>

\* `${parent.id}_${idx}`
ChildId(parentId, idx) == parentId \o <<"_">> \o NumberToString(idx)

RECURSIVE calculateSuiteHashFrom(_, _, _)
\* the forEach of calculateSuiteHash from array index idx on (tasks[parent]
\* is 1-based, the array index 0-based)
calculateSuiteHashFrom(ids, parent, idx) ==
    IF idx >= Len(tasks[parent]) THEN ids
    ELSE LET t == tasks[parent][idx + 1]
             i1 == [ids EXCEPT ![t] = ChildId(ids[parent], idx)]
             i2 == IF type[t] = "suite" THEN calculateSuiteHashFrom(i1, t, 0) ELSE i1
         IN  calculateSuiteHashFrom(i2, parent, idx + 1)

calculateSuiteHash(ids, parent) == calculateSuiteHashFrom(ids, parent, 0)

----------------------------------------------------------------------------
(* Actions *)

\* the state after createFileTask(filepath, root, projectName, pool) of one
\* of the given argument records; nothing is registered yet
InitGraph(fileArgs, graphs) ==
    /\ \E a \in fileArgs :
         LET file == createFileTask(a.filepath, a.root, a.projectName, a.pool, File) IN
         /\ tasks = (File :> file.tasks)
         /\ type = (File :> file.type)
         /\ mode = (File :> file.mode)
         /\ declared = (File :> file.mode)
         /\ name = (File :> file.name)
         /\ id = (File :> file.id)
    /\ suite = (File :> NoSuite)
    /\ result = (File :> NoResult)
    /\ pc = "collect"
    /\ namePattern = NoString
    /\ onlyMode = FALSE
    /\ allowOnly = FALSE
    /\ reached = {}
    /\ str = NoString
    /\ hashOut = <<>>
    /\ files = <<>>
    /\ createArgs = <<>>
    /\ prevId = id
    /\ edit = NoEdit
    /\ paths = <<>>
    /\ thrown = NoThrow
    /\ collectorContext = NoContext
    /\ invalidates = {}
    /\ changedTests = <<>>
    /\ watchedTests = {}
    /\ filenamePattern = NoPattern
    /\ runningPromise = NoPromise
    /\ restartsCount = 0
    /\ rerunTimer = NoTimer
    /\ timers = <<>>
    /\ graph \in graphs
    /\ frames = <<>>
    /\ micro = <<>>
    /\ runs = <<>>
    /\ batches = <<>>
    /\ calls = NoCalls
    /\ unhandledErrors = <<>>
    /\ isCancelling = FALSE
    /\ onCancelListeners = <<>>
    /\ invoked = <<>>
    /\ registered = <<>>
    /\ settled = <<>>

InitWith(fileArgs) == InitGraph(fileArgs, {WatchGraph})

FileArgs(root, rel, pn) ==
    [filepath |-> root \o <<"/">> \o rel, root |-> root,
     projectName |-> pn, pool |-> Undefined]

Init == InitWith({FileArgs(<<"/", "r">>, <<"a">>, Undefined)})

\* one describe / test / custom-task call of the file being collected
Register(maxTasks, kinds, names) ==
    /\ pc = "collect"
    /\ NumTasks < maxTasks
    /\ \E p \in OpenSuites, k \in kinds, nm \in names :
          RegisterTask(p, k[1], k[2], nm)
    /\ UNCHANGED <<pc, callVars, hashVars, fileVars>>

\* interpretTaskModes(file, namePattern, locationFilters, onlyMode, false, allowOnly)
Interpret(patterns, onlyModes, allows) ==
    /\ pc = "collect"
    /\ \E pat \in patterns, only \in onlyModes, allow \in allows :
          LET st == interpretTaskModes(
                        [mode |-> mode, result |-> result, reached |-> {}],
                        File, pat, only, FALSE, allow)
          IN  /\ mode' = st.mode
              /\ result' = st.result
              /\ reached' = st.reached
              /\ namePattern' = pat
              /\ onlyMode' = only
              /\ allowOnly' = allow
    /\ pc' = "interpreted"
    /\ UNCHANGED <<tasks, type, name, suite, id, declared, hashVars, fileVars, idVars, outerVars>>

RegisterModes ==
    /\ Register(MaxTasks, {"suite", "test"} \X RunModes, {<<"A">>})
    /\ UNCHANGED <<idVars, outerVars>>

\* any caller of the exported function, without a name pattern
InterpretModes == Interpret({NoString}, BOOLEAN, BOOLEAN)

\* the caller of generateHash builds its argument
TypeChar ==
    /\ hashOut = <<>>
    /\ Len(str) < MaxStrLen
    /\ \E c \in {"a", "/", "~"} : str' = Append(str, c)
    /\ UNCHANGED <<treeVars, pc, callVars, hashOut, fileVars, idVars, outerVars>>

\* generateHash(str), called once and then again on the same string
CallGenerateHash ==
    /\ Len(hashOut) < 2
    /\ hashOut' = Append(hashOut, generateHash(str))
    /\ UNCHANGED <<treeVars, pc, callVars, str, fileVars, idVars, outerVars>>

NextGenerateHash == TypeChar \/ CallGenerateHash

SpecGenerateHash == Init /\ [][NextGenerateHash]_vars

Roots == {<<"/", "r">>, <<"/", "s">>}
RelPaths == {<<"a">>, <<"b">>}
ProjectNames == {Undefined, NoString, <<"p">>}
Pools == {Undefined, <<"a">>, <<"b">>}

\* const file = createFileTask(filepath, config.root, config.name, runner.pool)
CreateFile ==
    /\ Len(files) < MaxFiles
    /\ \E root \in Roots, rel \in RelPaths, pn \in ProjectNames, pool \in Pools :
         LET filepath == root \o <<"/">> \o rel IN
         /\ files' = Append(files,
                createFileTask(filepath, root, pn, pool, Len(files) + 1))
         /\ createArgs' = Append(createArgs,
                [filepath |-> filepath, root |-> root,
                 projectName |-> pn, pool |-> pool])
    /\ UNCHANGED <<treeVars, pc, callVars, hashVars, idVars, outerVars>>

SpecCreateFile == Init /\ [][CreateFile]_vars

InitSuiteHash ==
    InitWith({FileArgs(<<"/", "r">>, <<"a">>, Undefined),
              FileArgs(<<"/", "r">>, <<"a", "~", "~", "~", "~", "~">>, <<"p">>)})

RegisterShape ==
    /\ Register(MaxHashTasks, {"suite", "test"} \X {"run"}, {<<"A">>})
    /\ UNCHANGED <<idVars, outerVars>>

\* calculateSuiteHash(file)
CalculateSuiteHash ==
    /\ pc \in {"collect", "hashed", "edited"}
    /\ NumTasks > 0
    /\ id' = calculateSuiteHash(id, File)
    /\ prevId' = id
    /\ pc' = IF pc = "collect" THEN "hashed" ELSE "rehashed"
    /\ UNCHANGED <<tasks, type, mode, name, suite, result, declared, edit,
                   callVars, hashVars, fileVars, outerVars>>

\* the same declarations collected again with two siblings in the other order
SwapSiblings ==
    /\ pc = "hashed"
    /\ \E p \in Objs : \E i, j \in 1..Len(tasks[p]) :
         /\ i < j
         /\ tasks' = [tasks EXCEPT ![p] = [@ EXCEPT ![i] = tasks[p][j],
                                                    ![j] = tasks[p][i]]]
         /\ edit' = [kind |-> "swap", a |-> tasks[p][i], b |-> tasks[p][j]]
    /\ pc' = "edited"
    /\ UNCHANGED <<type, mode, name, suite, result, id, declared, prevId,
                   callVars, hashVars, fileVars, outerVars>>

\* the same declarations collected again with another name and mode on a task
ChangeContent ==
    /\ pc = "hashed"
    /\ \E t \in Tasks :
         /\ name' = [name EXCEPT ![t] = <<"B">>]
         /\ mode' = [mode EXCEPT ![t] = "skip"]
    /\ edit' = [NoEdit EXCEPT !.kind = "content"]
    /\ pc' = "edited"
    /\ UNCHANGED <<tasks, type, suite, result, id, declared, prevId,
                   callVars, hashVars, fileVars, outerVars>>

NextSuiteHash ==
    RegisterShape \/ CalculateSuiteHash \/ SwapSiblings \/ ChangeContent

SpecSuiteHash == InitSuiteHash /\ [][NextSuiteHash]_vars

\* suites and tests of every mode, custom tasks, two names
RegisterNamed ==
    /\ Register(MaxNameTasks,
                ({"suite", "test"} \X RunModes) \cup {<<"custom", "run">>},
                {<<"A">>, <<"B">>})
    /\ UNCHANGED <<idVars, outerVars>>

NamePatterns == {NoString, <<"A", " ", "B">>, <<"A", " ", "C">>}

\* collectTests with config.allowOnly off: onlyMode is someTasksAreOnly(file)
InterpretNamed == Interpret(NamePatterns, {someTasksAreOnly(File)}, {FALSE})

NextName == RegisterNamed \/ InterpretNamed

SpecName == Init /\ [][NextName]_vars

\* suites declared run, tests declared run or only
RegisterScenario ==
    /\ Register(MaxScenarioTasks,
                {<<"suite", "run">>, <<"test", "run">>, <<"test", "only">>},
                {<<"A">>})
    /\ UNCHANGED <<idVars, outerVars>>

\* collectTests: onlyMode is someTasksAreOnly(file)
InterpretScenario == Interpret({NoString}, {someTasksAreOnly(File)}, {TRUE})

NextScenario == RegisterScenario \/ InterpretScenario

SpecScenario == Init /\ [][NextScenario]_vars

Next == RegisterModes \/ InterpretModes

Spec == Init /\ [][Next]_vars

----------------------------------------------------------------------------
(* Properties of mode interpretation *)

Interpreted == pc = "interpreted"
Suites == {o \in Objs : type[o] = "suite"}
DeclaredHasOnly == \E t \in Tasks : declared[t] = "only"

\* t lies on an only path: below a suite declared only, or above a task
\* declared only
OnOnlyPath(t) ==
    \/ \E a \in Ancestors(t) : declared[a] = "only"
    \/ \E d \in Descendants(t) : declared[d] = "only"

\* t lies below a suite whose final mode is skip
BelowSkipped(t) == \E a \in Ancestors(t) : mode[a] = "skip"

\* s has at least one child and none of its children has final mode run
NoChildRuns(s) == Children(s) # {} /\ \A c \in Children(s) : mode[c] # "run"

\* d lies below s, and d and every suite between s and d were declared run
RunChain(s, d) ==
    /\ d \in Descendants(s)
    /\ \A x \in ({d} \cup Ancestors(d)) \cap Descendants(s) : declared[x] = "run"

\* C1: in a tree with a task declared `only`, after
\* interpretTaskModes(file, onlyMode = true, parentIsOnly = false) every task
\* declared `run` that is neither below an only suite nor above an only task
\* has mode `skip`.
C1_OnlyPropagation ==
    (Interpreted /\ onlyMode /\ DeclaredHasOnly) =>
        \A t \in Tasks :
            (declared[t] = "run" /\ ~OnOnlyPath(t)) => mode[t] = "skip"

C4_OnlyScenario ==
    (Interpreted /\ DeclaredHasOnly /\ onlyMode /\ allowOnly
        /\ namePattern = NoString) =>
        /\ \A t \in Tasks :
             type[t] = "test" =>
                mode[t] = (IF declared[t] = "only" THEN "run" ELSE "skip")
        /\ \A s \in Suites :
             /\ (\E d \in Descendants(s) : declared[d] = "only") => mode[s] = "run"
             /\ (Children(s) # {} /\ \A d \in Descendants(s) : declared[d] # "only")
                    => mode[s] = "skip"

\* root -> S1 [t1 run, t2 only], S2 [t3 run], interpreted
C4_Witness ==
    /\ Interpreted
    /\ onlyMode
    /\ NumTasks = 5
    /\ tasks[File] = <<1, 4>> /\ tasks[1] = <<2, 3>> /\ tasks[4] = <<5>>
    /\ declared = (0 :> "run" @@ 1 :> "run" @@ 2 :> "run" @@ 3 :> "only"
                   @@ 4 :> "run" @@ 5 :> "run")
    /\ mode = (0 :> "run" @@ 1 :> "run" @@ 2 :> "skip" @@ 3 :> "run"
               @@ 4 :> "skip" @@ 5 :> "skip")

FailedOnce(r) == r.state = "fail" /\ Len(r.errors) = 1

\* the names of the suites above t, outermost first and the File left out,
\* and the name of t, joined by single spaces
RECURSIVE FullName(_)
FullName(t) ==
    IF Parent(t) = File THEN name[t]
    ELSE FullName(Parent(t)) \o <<" ">> \o name[t]

Contains(text, pat) ==
    \E i \in 1..(Len(text) - Len(pat) + 1) :
        \A k \in 1..Len(pat) : text[i + k - 1] = pat[k]

NameFails(t) == namePattern # NoString /\ ~Contains(FullName(t), namePattern)

OnlyRuleMode(t) ==
    IF ~onlyMode THEN declared[t]
    ELSE IF declared[t] = "only" THEN "run"
    ELSE IF declared[t] = "run" /\ \A a \in Ancestors(t) : declared[a] # "only"
    THEN "skip"
    ELSE declared[t]

\* C6 as stated: with a name pattern, every test whose full name does not
\* match ends `skip`, and a test whose full name matches keeps the mode the
\* only rules gave it.
C6_NameFilterAsStated ==
    (Interpreted /\ namePattern # NoString) =>
        \A t \in Tasks :
            type[t] = "test" => (NameFails(t) => mode[t] = "skip")

\* C6 as amended: with a name pattern, every test that the traversal reaches
\* (one not below a suite that was skip when the traversal reached it) and
\* whose full name does not match ends `skip`, whatever onlyMode and its
\* declared mode are; a reached test whose full name matches keeps the mode
\* the only rules gave it.
C6_NameFilter ==
    (Interpreted /\ namePattern # NoString) =>
        \A t \in Tasks :
            (type[t] = "test" /\ t \in reached) =>
                mode[t] = (IF NameFails(t) THEN "skip" ELSE OnlyRuleMode(t))

\* suite A holds test B, declared run: the pattern "A C" has made B skip
C6_Witness ==
    /\ Interpreted
    /\ \E a \in Suites \ {File} : \E b \in Children(a) :
         /\ Parent(a) = File
         /\ name[a] = <<"A">> /\ name[b] = <<"B">>
         /\ type[b] = "test" /\ declared[b] = "run" /\ declared[a] = "run"
         /\ ~onlyMode
         /\ namePattern = <<"A", " ", "C">>
         /\ mode[b] = "skip"

----------------------------------------------------------------------------
(* Properties of the ids *)

Hashed == pc \in {"hashed", "rehashed"}

\* the 0-based index of t in its parent's task array
IndexInParent(t) ==
    (CHOOSE i \in 1..Len(tasks[Parent(t)]) : tasks[Parent(t)][i] = t) - 1

\* C7: after calculateSuiteHash(file) the id of every task is the id of its
\* parent, an underscore and its index in the parent's task array, and no two
\* objects of the tree, the File included, share an id.
C7_PositionalIds ==
    Hashed =>
        /\ \A t \in Tasks :
             id[t] = id[Parent(t)] \o <<"_">> \o NumberToString(IndexInParent(t))
        /\ \A o1, o2 \in Objs : o1 # o2 => id[o1] # id[o2]

\* a nested suite with two children, and a sibling after it, have their ids
C7_Witness ==
    /\ Hashed
    /\ \E s \in Suites \ {File} :
         /\ Len(tasks[s]) >= 2
         /\ IndexInParent(s) = 0
         /\ Len(tasks[Parent(s)]) >= 2
         /\ id[tasks[s][2]] = id[File] \o <<"_", "0", "_", "1">>

\* C8: calculateSuiteHash applied again to the same tree leaves every id as
\* it was, also when names and modes were changed in between; applied after
\* two siblings were swapped it gives each of the two an id different from
\* the one it had.
C8_IdDeterminism ==
    pc = "rehashed" =>
        /\ edit.kind \in {"none", "content"} => id = prevId
        /\ edit.kind = "swap" =>
             id[edit.a] # prevId[edit.a] /\ id[edit.b] # prevId[edit.b]

\* two siblings, one of them a suite with a child, were swapped and the ids
\* assigned again
C8_Witness ==
    /\ pc = "rehashed"
    /\ edit.kind = "swap"
    /\ \E o \in {edit.a, edit.b} : tasks[o] # <<>>

----------------------------------------------------------------------------
(* Properties of generateHash and createFileTask *)

\* (h * 31 + c) wrapped to a signed 32-bit integer
Wrap31(h, c) ==
    LET lo == (h % 65536) * 31 + c
        hi == ((h \div 65536) * 31 + (lo \div 65536)) % 65536
    IN  (IF hi >= 32768 THEN hi - 65536 ELSE hi) * 65536 + (lo % 65536)

RECURSIVE Fold31(_, _)
\* the fold over the first n characters of str, starting from 0
Fold31(s, n) ==
    IF n = 0 THEN 0 ELSE Wrap31(Fold31(s, n - 1), CharCode[s[n]])

DigitValue(c) == CHOOSE d \in 0..9 : Digit[d + 1] = c

RECURSIVE DecimalValue(_, _, _)
\* the value of the digits s[i..], added to acc with the given sign
DecimalValue(s, i, acc) ==
    IF i > Len(s) THEN acc
    ELSE DecimalValue(s, i + 1,
            IF s[1] = "-" THEN acc * 10 - DigitValue(s[i])
            ELSE acc * 10 + DigitValue(s[i]))

\* s is the decimal rendering of n: an optional minus sign, then digits
\* without a leading zero
IsDecimalOf(s, n) ==
    LET first == IF s[1] = "-" THEN 2 ELSE 1 IN
    /\ Len(s) >= first
    /\ \A i \in first..Len(s) : \E d \in 1..10 : Digit[d] = s[i]
    /\ (s[first] = "0") => (Len(s) = 1)
    /\ DecimalValue(s, first, 0) = n

\* C9: generateHash("") is "0"; generateHash(s) is the decimal rendering of
\* the fold h := h * 31 + charCode wrapped to a signed 32-bit integer after
\* each character, starting from 0; a repeated call gives the same result,
\* which lies in [-2^31, 2^31 - 1].
C9_GenerateHash ==
    \A i \in 1..Len(hashOut) :
        /\ str = NoString => hashOut[i] = <<"0">>
        /\ IsDecimalOf(hashOut[i], Fold31(str, Len(str)))
        /\ Fold31(str, Len(str)) >= (0 - 2^30) * 2
        /\ Fold31(str, Len(str)) <= (2^30 - 1) * 2 + 1
        /\ hashOut[i] = hashOut[1]

\* the hash of a string long enough to wrap, rendered with a minus sign, and
\* computed twice
C9_Witness ==
    /\ Len(hashOut) = 2
    /\ Len(str) >= 6
    /\ hashOut[2][1] = "-"

\* C10: createFileTask returns a File with mode run, an empty task list,
\* `file` referring to itself and id = generateHash(root-relative path
\* followed by the project name, or by nothing when there is none); two
\* calls with the same relative path and project name give the same id
\* whatever the root, the pool and the files created before.
C10_CreateFileTask ==
    /\ \A i \in 1..Len(files) :
         /\ files[i].mode = "run"
         /\ files[i].tasks = <<>>
         /\ files[i].file = i
         /\ \E rel \in RelPaths :
              /\ createArgs[i].filepath = createArgs[i].root \o <<"/">> \o rel
              /\ files[i].id =
                    generateHash(rel \o (IF createArgs[i].projectName = Undefined
                                         THEN NoString
                                         ELSE createArgs[i].projectName))
    /\ \A i, j \in 1..Len(files) :
         (/\ files[i].name = files[j].name
          /\ files[i].projectName = files[j].projectName) =>
              files[i].id = files[j].id

\* two Files for the same relative path and project, created under different
\* roots for different pools
C10_Witness ==
    /\ Len(files) = 2
    /\ files[1].name = files[2].name
    /\ files[1].projectName = <<"p">> /\ files[2].projectName = <<"p">>
    /\ createArgs[1].root # createArgs[2].root
    /\ files[1].pool # files[2].pool
    /\ files[1].filepath # files[2].filepath

----------------------------------------------------------------------------
(* collectTests(paths, runner): one File per path.  The heap holds the     *)
(* File of the current loop iteration; files holds what was pushed.        *)

\* input paths of one collectTests call
MaxPaths == 2
\* top-level tasks appended to one File
MaxFileTasks == 2

BatchRoot == <<"/", "r">>
BatchPaths ==
    UNION {[1..n -> {BatchRoot \o <<"/">> \o r : r \in RelPaths}] :
              n \in 1..MaxPaths}

\* config.testNamePattern: none, or a name with the blank that follows the
\* name of a suite
BatchPatterns == {NoString, <<" ", "A">>}

\* processError(e): the thrown value as one serialisable error object
processError(e) == [message |-> e]

\* file.result = { state: 'fail', errors: [error] }, the result left alone
CaughtResultKept(res, e) == res

CaughtResult(res, e) ==
    [res EXCEPT ![File] = [state |-> "fail", errors |-> <<processError(e)>>]]

\* files.unshift(file)
PushFileFirst(fs, file) == <<file>> \o fs

\* files.push(file)
PushFile(fs, file) == Append(fs, file)

\* const file = createFileTask(filepath, config.root, config.name, runner.pool)
\* of the next loop iteration, clearCollectorContext
StartFile(filepath) ==
    LET file == createFileTask(filepath, BatchRoot, Undefined, Undefined, File) IN
    /\ tasks' = (File :> file.tasks)
    /\ type' = (File :> file.type)
    /\ mode' = (File :> file.mode)
    /\ declared' = (File :> file.mode)
    /\ name' = (File :> file.name) @@ (DefaultSuite :> NoString)
    /\ id' = (File :> file.id) @@ (DefaultSuite :> NoString)
    /\ suite' = (File :> NoSuite) @@ (DefaultSuite :> NoSuite)
    /\ result' = (File :> NoResult)
    /\ reached' = {}
    /\ thrown' = NoThrow
    /\ collectorContext' = NoContext
    /\ pc' = "setup"

\* the call: the first iteration creates the File of paths[0]
CallCollectTests ==
    /\ pc = "collect"
    /\ paths = <<>>
    /\ NumTasks = 0
    /\ \E ps \in BatchPaths :
         /\ paths' = ps
         /\ StartFile(ps[1])
    /\ \E allow \in BOOLEAN : allowOnly' = allow
    /\ \E pat \in BatchPatterns : namePattern' = pat
    /\ UNCHANGED <<onlyMode, hashVars, fileVars, idVars, coreVars, poolVars>>

\* the try block throws in the given phase: the catch block stores the error
Throws(phase) ==
    /\ result' = CaughtResult(result, phase)
    /\ thrown' = [phase |-> phase, tasks |-> tasks[File]]
    /\ pc' = "tried"
    /\ UNCHANGED <<tasks, type, mode, name, suite, id, declared,
                   callVars, hashVars, fileVars, idVars, paths, collectorContext,
                   coreVars, poolVars>>

\* await runSetupFiles(config, setupFiles, runner)
RunSetupFiles ==
    /\ pc = "setup"
    /\ \/ /\ pc' = "import"
          /\ UNCHANGED <<treeVars, callVars, hashVars, fileVars, idVars, batchVars, coreVars, poolVars>>
       \/ Throws("setup")

\* what a file can register: a test in each mode, a custom task, a suite
\* with one test, and collectors with or without a name and a test
BatchEntries ==
    {[type |-> "test", mode |-> m, name |-> <<"A">>, tasks |-> 0, child |-> "run"] :
        m \in {"run", "only", "skip"}}
    \cup {[type |-> "custom", mode |-> "run", name |-> <<"A">>, tasks |-> 0,
           child |-> "run"],
          [type |-> "suite", mode |-> "run", name |-> <<"A">>, tasks |-> 1,
           child |-> "run"],
          [type |-> "collector", mode |-> "run", name |-> <<"A">>, tasks |-> 1,
           child |-> "only"]}
    \cup {[type |-> "collector", mode |-> "run", name |-> nm, tasks |-> n,
           child |-> "run"] : nm \in {NoString, <<"A">>}, n \in {0, 1}}

EntryLists(n) == UNION {[1..k -> BatchEntries] : k \in 0..n}

\* [...defaultTasks.tasks, ...collectorContext.tasks]
LoopTasks(ctx) == ctx.defaultTasks \o ctx.tasks

\* createSuiteHooks(); mergeHooks(fileHooks, hooks): the hooks are named by
\* the entry they belong to (0 for the default suite)
mergeHooks(baseHooks, owner) == Append(baseHooks, owner)

\* await runner.importFile(filepath, 'collect'); getDefaultSuite().collect(file);
\* the hooks of the default suite come first
ImportFile ==
    /\ pc = "import"
    /\ \/ /\ pc' = "tasks"
          /\ \E ds \in EntryLists(MaxFileTasks) :
             \E cs \in EntryLists(MaxFileTasks - Len(ds)) :
                collectorContext' = [defaultTasks |-> ds, tasks |-> cs, index |-> 0,
                                     fileHooks |-> mergeHooks(<<>>, 0)]
          /\ UNCHANGED <<treeVars, callVars, hashVars, fileVars, idVars, paths,
                         thrown, coreVars, poolVars>>
       \/ Throws("import")

\* file.tasks.push(c): the task, with the test it holds when it has one
PushTask(c) ==
    LET s == NumTasks + 1
        t == NumTasks + 2
        new == IF c.tasks = 1 THEN {s, t} ELSE {s}
        inner == IF c.tasks = 1 THEN <<t>> ELSE <<>>
    IN
    /\ tasks' = [q \in Objs \cup new |->
                    IF q = t THEN <<>>
                    ELSE IF q = s THEN inner
                    ELSE IF q = File THEN Append(tasks[File], s)
                    ELSE tasks[q]]
    /\ type' = [q \in Objs \cup new |->
                    IF q = t THEN "test"
                    ELSE IF q = s THEN (IF c.type = "collector" THEN "suite" ELSE c.type)
                    ELSE type[q]]
    /\ mode' = [q \in Objs \cup new |->
                    IF q = t THEN c.child ELSE IF q = s THEN c.mode ELSE mode[q]]
    /\ declared' = [q \in Objs \cup new |->
                    IF q = t THEN c.child ELSE IF q = s THEN c.mode ELSE declared[q]]
    /\ name' = [q \in DOMAIN name \cup new |->
                    IF q = t THEN <<"B">> ELSE IF q = s THEN c.name ELSE name[q]]
    /\ suite' = [q \in DOMAIN suite \cup new |->
                    IF q = t THEN s ELSE IF q = s THEN DefaultSuite ELSE suite[q]]
    /\ result' = [q \in Objs \cup new |-> IF q \in new THEN NoResult ELSE result[q]]
    /\ id' = [q \in DOMAIN id \cup new |-> IF q \in new THEN NoString ELSE id[q]]

\* a nameless collector without tasks kept like every other
CollectorKeptAlways(su) == TRUE

\* if (suite.name || suite.tasks.length)
CollectorKept(su) == su.name # NoString \/ su.tasks > 0

\* the loop has tasks left
InLoop ==
    /\ pc = "tasks"
    /\ collectorContext.index < Len(LoopTasks(collectorContext))

\* the task of the current loop iteration
LoopTask == LoopTasks(collectorContext)[collectorContext.index + 1]

\* c.type === 'test' || c.type === 'custom' || c.type === 'suite':
\* file.tasks.push(c)
PushTest ==
    /\ InLoop
    /\ LoopTask.type \in {"test", "custom", "suite"}
    /\ PushTask(LoopTask)
    /\ collectorContext' = [collectorContext EXCEPT !.index = @ + 1]
    /\ UNCHANGED <<pc, callVars, hashVars, fileVars, idVars, paths, thrown,
                   coreVars, poolVars>>

\* c.type === 'collector': const suite = await c.collect(file); the suite is
\* pushed and its hooks merged when it has a name or a task
PushSuite ==
    /\ InLoop
    /\ LoopTask.type = "collector"
    /\ IF CollectorKept(LoopTask)
       THEN /\ PushTask(LoopTask)
            /\ collectorContext' =
                  [collectorContext EXCEPT
                      !.index = @ + 1,
                      !.fileHooks = mergeHooks(@, collectorContext.index + 1)]
       ELSE /\ collectorContext' = [collectorContext EXCEPT !.index = @ + 1]
            /\ UNCHANGED treeVars
    /\ UNCHANGED <<pc, callVars, hashVars, fileVars, idVars, paths, thrown,
                   coreVars, poolVars>>

\* c.collect(file) throws: the describe block of the collector fails
CollectorThrows ==
    /\ InLoop
    /\ LoopTask.type = "collector"
    /\ Throws("collect")

\* the loop over the collected tasks ends; setHooks, collectDuration
EndTry ==
    /\ pc = "tasks"
    /\ collectorContext.index = Len(LoopTasks(collectorContext))
    /\ pc' = "tried"
    /\ UNCHANGED <<treeVars, callVars, hashVars, fileVars, idVars, batchVars, coreVars, poolVars>>

\* what files.push(file) keeps of the File
FileSummary ==
    [filepath |-> paths[Len(files) + 1], threw |-> thrown.phase]

\* the back-references left as they are
DeleteSuiteNever(su, ids, top) == su

\* file.tasks.forEach(task => { if (task.suite?.id === '') delete task.suite })
DeleteSuite(su, ids, top) ==
    [o \in DOMAIN su |->
        IF o \in top /\ su[o] # NoSuite /\ ids[su[o]] = NoString
        THEN NoSuite ELSE su[o]]

\* calculateSuiteHash(file), then the back-references to the default suite
\* are deleted from the top-level tasks
HashAndStrip ==
    /\ pc = "tried"
    /\ id' = calculateSuiteHash(id, File)
    /\ suite' = DeleteSuite(suite, id', Children(File))
    /\ pc' = "stripped"
    /\ UNCHANGED <<tasks, type, mode, name, result, declared, callVars,
                   hashVars, fileVars, idVars, batchVars, coreVars, poolVars>>

\* const hasOnlyTasks = someTasksAreOnly(file); interpretTaskModes(file,
\* config.testNamePattern, config.locationFilters, hasOnlyTasks, false,
\* config.allowOnly); files.push(file)
FinishFile ==
    /\ pc = "stripped"
    /\ LET only == someTasksAreOnly(File)
           st == interpretTaskModes(
                     [mode |-> mode, result |-> result, reached |-> {}],
                     File, namePattern, only, FALSE, allowOnly)
       IN /\ mode' = st.mode
          /\ result' = st.result
          /\ reached' = st.reached
          /\ onlyMode' = only
    /\ files' = PushFile(files, FileSummary)
    /\ pc' = "pushed"
    /\ UNCHANGED <<tasks, type, name, suite, id, declared, namePattern, allowOnly,
                   hashVars, createArgs, idVars, batchVars, coreVars, poolVars>>

\* the next iteration of for (const filepath of paths)
NextPath ==
    /\ pc = "pushed"
    /\ Len(files) < Len(paths)
    /\ StartFile(paths[Len(files) + 1])
    /\ UNCHANGED <<namePattern, onlyMode, allowOnly, hashVars, fileVars,
                   idVars, paths, coreVars, poolVars>>

\* return files
ReturnFiles ==
    /\ pc = "pushed"
    /\ Len(files) = Len(paths)
    /\ pc' = "returned"
    /\ UNCHANGED <<treeVars, callVars, hashVars, fileVars, idVars, batchVars, coreVars, poolVars>>

NextCollectTests ==
    \/ CallCollectTests \/ RunSetupFiles \/ ImportFile \/ PushTest \/ PushSuite
    \/ CollectorThrows \/ EndTry \/ HashAndStrip \/ FinishFile \/ NextPath
    \/ ReturnFiles

SpecCollectTests == Init /\ [][NextCollectTests]_vars

\* the File of the current iteration has been pushed to files
Pushed == pc \in {"pushed", "returned"}

\* C11: collectTests returns exactly one File per input path, in input
\* order, whichever files throw during setup, import or collection; a file
\* that does not throw is fully collected (every task has its positional id,
\* the modes are interpreted, the File has no failure result), also when an
\* earlier file of the batch threw.
C11_OneFilePerPath ==
    /\ Len(files) <= Len(paths)
    /\ \A i \in 1..Len(files) : files[i].filepath = paths[i]
    /\ pc = "returned" => Len(files) = Len(paths)
    /\ (Pushed /\ thrown = NoThrow) =>
          /\ result[File] = NoResult
          /\ \A t \in Tasks :
                /\ id[t] = id[Parent(t)] \o <<"_">> \o NumberToString(IndexInParent(t))
                /\ mode[t] # "only"
                /\ (DeclaredHasOnly /\ declared[t] = "run" /\ ~OnOnlyPath(t))
                      => mode[t] = "skip"

\* a batch of two different paths was returned, the first file threw and the
\* second, holding an only test next to a run task, was collected fully
C11_Witness ==
    /\ pc = "returned"
    /\ Len(files) = 2
    /\ paths[1] # paths[2]
    /\ files[1].threw # "none"
    /\ files[2].threw = "none"
    /\ DeclaredHasOnly
    /\ \E t \in Tasks : declared[t] = "run" /\ mode[t] = "skip"

\* C12: when the try block of a file throws (setup files, import or
\* collection), the File gets result {state: fail, errors: [one normalized
\* error]}, the tasks already appended to file.tasks remain and nothing is
\* appended afterwards, and collectTests goes on: the File is finished and
\* pushed like every other.
C12_ThrowIsCaught ==
    thrown.phase # "none" =>
        /\ result[File].state = "fail"
        /\ Len(result[File].errors) = 1
        /\ result[File].errors[1] = processError(thrown.phase)
        /\ tasks[File] = thrown.tasks
        /\ pc \in {"tried", "stripped", "pushed", "returned"}
        /\ Pushed => files[Len(files)] = [filepath |-> paths[Len(files)],
                                          threw |-> thrown.phase]

\* a collector threw after one task had been appended, and the File was
\* pushed with that task
C12_Witness ==
    /\ Pushed
    /\ thrown.phase = "collect"
    /\ Len(tasks[File]) = 1

----------------------------------------------------------------------------
(* Watch mode of the Vitest class (packages/vitest/src/node/core.ts).      *)
(* A Set<string> is a sequence without repetitions in insertion order.     *)

\* the set left as it is
SetClearKept(set) == set

\* Set.prototype.clear
SetClear(set) == <<>>

\* Set.prototype.has answering no
SetHasNever(set, x) == FALSE

SetHas(set, x) == \E i \in 1..Len(set) : set[i] = x

\* Array.prototype.push pushing nothing
ArrayPushNothing(set, x) == set

\* Array.prototype.push, which keeps repetitions
ArrayPush(set, x) == Append(set, x)

\* Set.prototype.add adding nothing
SetAddKept(set, x) == set

\* Set.prototype.add
SetAdd(set, x) == IF SetHas(set, x) THEN set ELSE Append(set, x)

\* the forEach adding the first file only
SetAddFirst(set, xs) == IF xs = <<>> THEN set ELSE SetAdd(set, Head(xs))

RECURSIVE SetAddAll(_, _)
SetAddAll(set, xs) ==
    IF xs = <<>> THEN set ELSE SetAddAll(SetAdd(set, Head(xs)), Tail(xs))

\* the array returned as it is
UniqueKept(xs) == xs

\* Array.from(new Set(files))
Unique(xs) == SetAddAll(<<>>, xs)

RECURSIVE SeqFilter(_, _)
\* Array.prototype.filter with the predicate "is a member of keep"
SeqFilter(xs, keep) ==
    IF xs = <<>> THEN <<>>
    ELSE IF Head(xs) \in keep THEN <<Head(xs)>> \o SeqFilter(Tail(xs), keep)
    ELSE SeqFilter(Tail(xs), keep)

SeqRange(xs) == {xs[i] : i \in 1..Len(xs)}

\* the files some project has loaded
GraphFiles(g) == UNION {g.mods[p] : p \in 1..Len(g.mods)}

\* the files the watcher reports changes of
WatchedFiles(g) == UNION {DOMAIN g.importers[p] : p \in 1..Len(g.importers)}

\* this.getModuleProjects(filepath): the projects that have the file loaded
getModuleProjects(g, filepath) ==
    {p \in 1..Len(g.mods) : filepath \in g.mods[p]}

\* this.state.filesMap.has(filepath) || project.isTestFile(filepath)
IsKnownTest(g, project, filepath) ==
    filepath \in g.filesMap \/ filepath \in g.tests[project]

\* handleFileChanged(filepath).  hs = [changed, inval, files]: the two
\* pending sets as the call leaves them and the list it returns.
RECURSIVE handleFileChanged(_, _, _, _)
RECURSIVE handleImporters(_, _, _, _, _, _)
RECURSIVE handleProjects(_, _, _, _, _, _)

\* the importer is walked although it has no file
HasFileAlways(i) == TRUE

\* if (!i.file) return
HasFile(i) == i # NoFile

\* mod.importers.forEach(i => ...) from importer number k on; the field files
\* of the result is non-empty when some importer needed a rerun.  The field
\* trace lists the handleFileChanged calls made, in call order.
handleImporters(changed, inval, g, project, filepath, k) ==
    LET imps == g.importers[project][filepath] IN
    IF k > Len(imps)
    THEN [changed |-> changed, inval |-> inval, files |-> <<>>, trace |-> <<>>]
    ELSE IF ~HasFile(imps[k])
    THEN handleImporters(changed, inval, g, project, filepath, k + 1)
    ELSE LET needsRerun == handleFileChanged(changed, inval, g, imps[k])
             rest == handleImporters(needsRerun.changed, needsRerun.inval,
                                     g, project, filepath, k + 1)
         IN  [rest EXCEPT !.files = needsRerun.files \o @,
                          !.trace = needsRerun.trace \o @]

\* for (const project of projects) from project number p on
handleProjects(changed, inval, g, filepath, p, acc) ==
    IF p > Len(g.mods)
    THEN [changed |-> changed, inval |-> inval, files |-> acc, trace |-> <<>>]
    ELSE IF filepath \notin g.mods[p]
    THEN handleProjects(changed, inval, g, filepath, p + 1, acc)
    ELSE IF IsKnownTest(g, p, filepath)
    THEN handleProjects(SetAdd(changed, filepath), inval \cup {filepath},
                        g, filepath, p + 1, ArrayPush(acc, filepath))
    ELSE LET imp == handleImporters(changed, inval \cup {filepath},
                                    g, p, filepath, 1)
             rest == handleProjects(imp.changed, imp.inval, g, filepath, p + 1,
                        IF imp.files # <<>> THEN ArrayPush(acc, filepath) ELSE acc)
         IN  [rest EXCEPT !.trace = imp.trace \o @]

\* one handleFileChanged call: its argument, whether invalidates held the
\* file when it was made, and whether it went on to walk importers
TraceEntry(inval, filepath, walks) ==
    [file |-> filepath, fresh |-> filepath \notin inval, walks |-> walks]

handleFileChanged(changed, inval, g, filepath) ==
    IF SetHas(changed, filepath) \/ filepath \in inval
    THEN [changed |-> changed, inval |-> inval, files |-> <<>>,
          trace |-> <<TraceEntry(inval, filepath, FALSE)>>]
    ELSE IF filepath \in g.triggers
    THEN [changed |-> SetAddAll(changed, g.filepaths), inval |-> inval,
          files |-> <<filepath>>,
          trace |-> <<TraceEntry(inval, filepath, FALSE)>>]
    ELSE IF getModuleProjects(g, filepath) = {}
    THEN IF \/ filepath \in g.filesMap
            \/ \E p \in 1..Len(g.tests) : filepath \in g.tests[p]
         THEN [changed |-> SetAdd(changed, filepath), inval |-> inval,
               files |-> <<filepath>>,
               trace |-> <<TraceEntry(inval, filepath, FALSE)>>]
         ELSE [changed |-> changed, inval |-> inval, files |-> <<>>,
               trace |-> <<TraceEntry(inval, filepath, FALSE)>>]
    ELSE LET r == handleProjects(changed, inval, g, filepath, 1, <<>>)
             walks == \E p \in getModuleProjects(g, filepath) :
                          ~IsKnownTest(g, p, filepath)
         IN  [r EXCEPT !.files = Unique(@),
                       !.trace = <<TraceEntry(inval, filepath, walks)>> \o @]

----------------------------------------------------------------------------
(* The event loop.  A macrotask (watcher event, timer, completed I/O, API   *)
(* call) runs only when the microtask queue is empty; an await suspends    *)
(* the calling frame until its promise settles.                            *)

\* watcher events of one behaviour
MaxEvents == 3
\* API calls of one behaviour in watch mode
MaxApiCalls == 1
\* runFiles, collectFiles and rerunFiles calls of one behaviour without watcher
MaxRunCalls == 3
\* server restarts of one behaviour
MaxRestarts == 1
\* change events of one debounce window
MaxBurst == 5
\* change events of one behaviour whose events arrive during runs
MaxRunEvents == 4
\* change events of one behaviour with runs requested from outside
MaxCallEvents == 1

FrameIds ==
    1..(MaxEvents + MaxApiCalls + MaxRunCalls + MaxBurst + MaxRunEvents
          + MaxCallEvents)
FreeFrame ==
    CHOOSE i \in FrameIds :
        i \notin DOMAIN frames /\ \A j \in 1..(i - 1) : j \in DOMAIN frames
FreeRun ==
    CHOOSE i \in FrameIds :
        i \notin DOMAIN runs /\ \A j \in 1..(i - 1) : j \in DOMAIN runs

Without(f, x) == [y \in DOMAIN f \ {x} |-> f[y]]

\* during: the runs that were in flight when the call was made and still are
Frame(kind, at, fs, count, pattern) ==
    [kind |-> kind, pc |-> at, files |-> fs, count |-> count, pattern |-> pattern,
     during |-> DOMAIN runs, rejected |-> FALSE]

\* this.globTestFiles([pattern]): the test files whose path matches
globTestFiles(g, pattern) ==
    {f \in UNION {g.tests[p] : p \in 1..Len(g.tests)} :
        pattern = f \/ pattern = "t"}


\* await promise, by frame f: resumed in a microtask when promise is undefined,
\* else when the run settles
Await(mq, rs, f, promise) ==
    IF promise = NoPromise
    THEN [micro |-> Append(mq, f), runs |-> rs]
    ELSE [micro |-> mq, runs |-> [rs EXCEPT ![promise].waiters = Append(@, f)]]

\* clearTimeout(this._rerunTimer)
clearTimeout(ts, handle) == Without(ts, handle)


\* clearTimeout(this._rerunTimer) after await this.runningPromise
clearTimeoutAfterAwait(ts, handle) == clearTimeout(ts, handle)

\* scheduleRerun(triggerId) up to await this.runningPromise, called while the
\* suspended calls are fs
ScheduleRerunFrom(fs, triggerId) ==
    LET f == FreeFrame
        w == Await(micro, runs, f, runningPromise)
    IN  /\ timers' = clearTimeout(timers, rerunTimer)
        /\ frames' = (f :> Frame("scheduleRerun", "awaitRunning", triggerId,
                                 restartsCount, NoPattern)) @@ fs
        /\ micro' = w.micro
        /\ runs' = w.runs

ScheduleRerun(triggerId) == ScheduleRerunFrom(frames, triggerId)

\* watcher.on('change', onChange)
ChangeEvent(maxEvents) ==
    /\ micro = <<>>
    /\ calls.events < maxEvents
    /\ \E filepath \in WatchedFiles(graph) :
         LET needsRerun ==
                 handleFileChanged(changedTests, invalidates, graph, filepath) IN
         /\ changedTests' = needsRerun.changed
         /\ invalidates' = needsRerun.inval
         /\ IF needsRerun.files # <<>>
            THEN ScheduleRerun(needsRerun.files)
            ELSE UNCHANGED <<timers, frames, micro, runs>>
    /\ calls' = [calls EXCEPT !.events = @ + 1]
    /\ UNCHANGED <<watchedTests, filenamePattern, runningPromise, restartsCount,
                   rerunTimer, graph, batches, collectVars, poolVars>>

\* if (this.watchedTests.size) this.changedTests.forEach(... delete ...)
WatchedOnlyAll(changed, watched) == changed

WatchedOnly(changed, watched) ==
    IF watched # {} THEN SeqFilter(changed, watched) ELSE changed

\* the timeout set by scheduleRerun fires: the callback up to its first await
FireTimer ==
    /\ micro = <<>>
    /\ \E h \in DOMAIN timers :
         LET count == timers[h].count
             changed == WatchedOnly(changedTests, watchedTests)
             f == FreeFrame
         IN
         /\ timers' = Without(timers, h)
         /\ IF changed = <<>>
            THEN /\ invalidates' = {}
                 /\ changedTests' = changed
                 /\ UNCHANGED <<frames, batches>>
            ELSE IF restartsCount # count
            THEN /\ changedTests' = changed
                 /\ UNCHANGED <<invalidates, frames, batches>>
            ELSE IF filenamePattern # NoPattern
            THEN /\ changedTests' = changed
                 /\ frames' = (f :> Frame("timer", "glob", changed, count,
                                          filenamePattern)) @@ frames
                 /\ UNCHANGED <<invalidates, batches>>
            ELSE /\ changedTests' = SetClear(changedTests)
                 /\ batches' = Append(batches, changed)
                 /\ frames' = (f :> Frame("timer", "pre", changed, count,
                                          NoPattern)) @@ frames
                 /\ UNCHANGED invalidates
    /\ UNCHANGED <<watchedTests, filenamePattern, runningPromise, restartsCount,
                   rerunTimer, graph, micro, runs, calls, collectVars, poolVars>>

\* await this.globTestFiles([this.filenamePattern]) completes, in the timer
\* callback or in rerunFiles
GlobDone ==
    /\ micro = <<>>
    /\ \E f \in DOMAIN frames :
         LET fr == frames[f]
             filtered == SeqFilter(fr.files, globTestFiles(graph, fr.pattern))
         IN
         /\ fr.pc = "glob"
         /\ IF fr.kind = "timer" /\ filtered = <<>>
            THEN /\ frames' = Without(frames, f)
                 /\ UNCHANGED <<changedTests, batches>>
            ELSE /\ frames' = [frames EXCEPT ![f].pc = "pre", ![f].files = filtered]
                 /\ IF fr.kind = "timer"
                    THEN /\ changedTests' = SetClear(changedTests)
                         /\ batches' = Append(batches, filtered)
                    ELSE UNCHANGED <<changedTests, batches>>
    /\ UNCHANGED <<invalidates, watchedTests, filenamePattern, runningPromise,
                   restartsCount, rerunTimer, timers, graph, micro, runs, calls,
                   collectVars, poolVars>>

\* the reports and initializeDistPath before the run are done:
\* await this.runningPromise
PreDone ==
    /\ micro = <<>>
    /\ \E f \in DOMAIN frames :
         LET w == Await(micro, runs, f, runningPromise) IN
         /\ frames[f].pc = "pre"
         /\ frames' = [frames EXCEPT ![f].pc = "awaitRunning"]
         /\ micro' = w.micro
         /\ runs' = w.runs
    /\ UNCHANGED <<invalidates, changedTests, watchedTests, filenamePattern,
                   runningPromise, restartsCount, rerunTimer, timers, graph,
                   batches, calls, collectVars, poolVars>>

\* scheduleRerun after await this.runningPromise
ResumeScheduleRerun(f) ==
    LET fr == frames[f]
        cleared == clearTimeoutAfterAwait(timers, rerunTimer)
        h == CHOOSE i \in FrameIds :
                 /\ i \notin DOMAIN timers \cup {rerunTimer}
                 /\ \A j \in 1..(i - 1) : j \in DOMAIN timers \cup {rerunTimer}
    IN
    /\ frames' = Without(frames, f)
    /\ IF restartsCount # fr.count
       THEN /\ timers' = cleared
            /\ UNCHANGED rerunTimer
       ELSE /\ timers' = (h :> [count |-> fr.count, trigger |-> fr.files]) @@ cleared
            /\ rerunTimer' = h
    /\ UNCHANGED <<invalidates, runningPromise, runs, poolVars>>

\* runFiles / collectFiles after await this.runningPromise: the new run
StartRun(f) ==
    LET fr == frames[f]
        r == FreeRun
    IN
    /\ onCancelListeners' = <<>>
    /\ isCancelling' = FALSE
    /\ registered' = <<>>
    /\ runs' = (r :> [kind |-> IF fr.kind = "collectFiles" THEN "collect" ELSE "run",
                      files |-> fr.files, waiters |-> <<f>>,
                      invalidates |-> invalidates, error |-> "none"]) @@ runs
    /\ runningPromise' = r
    /\ invalidates' = {}
    /\ unhandledErrors' = <<>>
    /\ frames' = [frames EXCEPT ![f].pc = "awaitRun"]
    /\ UNCHANGED <<rerunTimer, timers, invoked, settled>>

\* the calls made from outside
ApiKinds == {"runFiles", "collectFiles", "rerunFiles"}

\* return await this.runningPromise; the callers of runFiles report
\* onWatcherStart and return
EndRunFiles(f) ==
    /\ frames' = Without(frames, f)
    /\ settled' = IF frames[f].kind \in ApiKinds
                  THEN Append(settled, "resolved") ELSE settled
    /\ UNCHANGED <<invalidates, runningPromise, runs, rerunTimer, timers,
                   unhandledErrors, isCancelling, onCancelListeners, invoked,
                   registered>>

\* the awaited run promise was rejected: the await throws and the call ends
\* with the same rejection
Rejected(f) ==
    /\ frames' = Without(frames, f)
    /\ settled' = Append(settled, "rejected")
    /\ UNCHANGED <<invalidates, runningPromise, runs, rerunTimer, timers,
                   unhandledErrors, isCancelling, onCancelListeners, invoked,
                   registered>>

\* the oldest microtask runs
MicroStep ==
    /\ micro # <<>>
    /\ micro' = Tail(micro)
    /\ LET f == Head(micro) IN
       IF frames[f].rejected THEN Rejected(f)
       ELSE IF frames[f].kind = "scheduleRerun" THEN ResumeScheduleRerun(f)
       ELSE IF frames[f].pc = "awaitRunning" THEN StartRun(f)
       ELSE EndRunFiles(f)
    /\ UNCHANGED <<changedTests, watchedTests, filenamePattern, restartsCount,
                   graph, batches, calls, collectVars>>

\* runs that throw in one behaviour
MaxThrows == 1

\* try { await this.pool.runTests(...) } catch (err) {...}: what becomes of
\* an error thrown by the pool
TryUncaught(err) == "uncaught"

TryCatch(err) == "caught"

\* this.state.catchError(err, 'Unhandled Error')
catchError(errors, err) == Append(errors, err)

\* pool.runTests(specs, invalidates) or pool.collectTests(specs, invalidates)
\* throws
PoolThrows ==
    /\ micro = <<>>
    /\ calls.throws < MaxThrows
    /\ calls' = [calls EXCEPT !.throws = @ + 1]
    /\ \E r \in DOMAIN runs :
         LET caught == TryCatch("Unhandled Error") IN
         /\ runs[r].error = "none"
         /\ runs' = [runs EXCEPT ![r].error = caught]
         /\ unhandledErrors' =
                IF caught = "caught"
                THEN catchError(unhandledErrors, "Unhandled Error")
                ELSE unhandledErrors
    /\ UNCHANGED <<invalidates, changedTests, watchedTests, filenamePattern,
                   runningPromise, restartsCount, rerunTimer, timers, graph,
                   frames, micro, batches, collectVars, isCancelling,
                   onCancelListeners, invoked, settled, registered>>

\* initializeGlobalSetup, pool.runTests(specs, invalidates) or
\* pool.collectTests(specs, invalidates) and the finally block are done:
\* this.runningPromise = undefined
RunDone ==
    /\ micro = <<>>
    /\ \E r \in DOMAIN runs :
         /\ runs' = Without(runs, r)
         /\ micro' = micro \o runs[r].waiters
         /\ frames' = [f \in DOMAIN frames |->
                          [frames[f] EXCEPT
                             !.during = @ \ {r},
                             !.rejected = @ \/ (/\ runs[r].error = "uncaught"
                                                /\ f \in SeqRange(runs[r].waiters))]]
    /\ runningPromise' = NoPromise
    /\ UNCHANGED <<invalidates, changedTests, watchedTests, filenamePattern,
                   restartsCount, rerunTimer, timers, graph, batches,
                   calls, collectVars, poolVars>>

\* the file lists the API callers pass
ApiFiles == {<<"t1">>, <<"t1", "t2">>}

\* rerunFiles(files, trigger) up to its first await
RerunFiles(fs, pattern) ==
    frames' = (FreeFrame :>
                 Frame("rerunFiles",
                       IF pattern # NoPattern THEN "glob" ELSE "pre",
                       fs, restartsCount, pattern)) @@ frames

ApiCall(maxCalls) ==
    /\ micro = <<>>
    /\ calls.api < maxCalls
    /\ calls' = [calls EXCEPT !.api = @ + 1]

\* runFiles(specs, allTestsRun) or collectFiles(specs), called from outside
RunFilesCall(maxCalls) ==
    /\ ApiCall(maxCalls)
    /\ \E fs \in ApiFiles, kind \in {"runFiles", "collectFiles"} :
         frames' = (FreeFrame :>
                      Frame(kind, "pre", fs, restartsCount, NoPattern)) @@ frames
    /\ UNCHANGED <<invalidates, changedTests, watchedTests, filenamePattern,
                   runningPromise, restartsCount, rerunTimer, timers, graph,
                   micro, runs, batches, collectVars, poolVars>>

\* rerunFiles(files, trigger), called from outside
RerunFilesCall(maxCalls) ==
    /\ ApiCall(maxCalls)
    /\ \E fs \in ApiFiles : RerunFiles(fs, filenamePattern)
    /\ UNCHANGED <<invalidates, changedTests, watchedTests, filenamePattern,
                   runningPromise, restartsCount, rerunTimer, timers, graph,
                   micro, runs, batches, collectVars, poolVars>>

\* changeFilenamePattern(pattern)
ChangeFilenamePatternCall(maxCalls) ==
    /\ ApiCall(maxCalls)
    /\ \E pattern \in {NoPattern, "t1", "t"} :
         /\ filenamePattern' = pattern
         /\ RerunFiles(graph.filepaths, pattern)
    /\ UNCHANGED <<invalidates, changedTests, watchedTests, runningPromise,
                   restartsCount, rerunTimer, timers, graph, micro, runs,
                   batches, collectVars, poolVars>>

ChangeFilenamePattern == ChangeFilenamePatternCall(MaxApiCalls)

\* watchTests(tests)
WatchTestsCall ==
    /\ ApiCall(MaxApiCalls)
    /\ \E tests \in SUBSET WatchTests : watchedTests' = tests
    /\ UNCHANGED <<invalidates, changedTests, filenamePattern, runningPromise,
                   restartsCount, rerunTimer, timers, graph, frames, micro, runs,
                   batches, collectVars, poolVars>>

\* setServer(options, server, cliOptions) up to its first await
SetServer ==
    /\ micro = <<>>
    /\ calls.restarts < MaxRestarts
    /\ calls' = [calls EXCEPT !.restarts = @ + 1]
    /\ timers' = clearTimeout(timers, rerunTimer)
    /\ restartsCount' = restartsCount + 1
    /\ runningPromise' = NoPromise
    /\ graph' = [graph EXCEPT !.filesMap = {}, !.filepaths = <<>>]
    /\ UNCHANGED <<invalidates, changedTests, watchedTests, filenamePattern,
                   rerunTimer, frames, micro, runs, batches, collectVars, poolVars>>


NextWatch ==
    \/ ChangeEvent(MaxEvents) \/ FireTimer \/ GlobDone \/ PreDone \/ MicroStep
    \/ RunDone \/ RunFilesCall(MaxApiCalls) \/ RerunFilesCall(MaxApiCalls)
    \/ ChangeFilenamePattern \/ WatchTestsCall \/ SetServer

SpecWatch == Init /\ [][NextWatch]_vars

\* runs requested from outside, next to a watcher event
NextRuns ==
    \/ RunFilesCall(MaxRunCalls) \/ RerunFilesCall(MaxRunCalls)
    \/ ChangeEvent(MaxCallEvents) \/ FireTimer
    \/ PreDone \/ MicroStep \/ RunDone

SpecRuns == Init /\ [][NextRuns]_vars

\* C13: no two run bodies ever overlap: a new pool.runTests /
\* pool.collectTests execution starts only after the previous one has
\* finished, and at most one current-run promise exists at a time, also
\* when two or more callers were suspended on the same in-flight run.
C13_RunsSerialized == Cardinality(DOMAIN runs) <= 1

\* change events of one debounce window: none after the timer has fired
ChangeInWindow ==
    /\ batches = <<>>
    /\ ChangeEvent(MaxBurst)

NextBurst == ChangeInWindow \/ MicroStep \/ FireTimer \/ PreDone \/ RunDone

SpecBurst == Init /\ [][NextBurst]_vars

\* how often x occurs in the array xs
Occurrences(xs, x) == Cardinality({i \in 1..Len(xs) : xs[i] = x})

\* nothing is armed, suspended or running
Quiet == timers = <<>> /\ frames = <<>> /\ runs = <<>> /\ micro = <<>>

\* C14: N >= 1 change events for the same known test file within one
\* debounce window (no run in flight, no watch or filename restriction)
\* cause exactly one rerun batch, and that batch contains the file exactly
\* once: before the timer fires the file is pending once, the fire submits
\* one batch with the file once, and the run gets it once.
C14_OneBatchPerBurst ==
    /\ Len(batches) <= 1
    /\ \A f \in invalidates :
          Occurrences(changedTests, f)
            + (IF batches = <<>> THEN 0 ELSE Occurrences(batches[1], f)) = 1
    /\ \A r \in DOMAIN runs :
          /\ runs[r].files = batches[1]
          /\ \A f \in runs[r].invalidates : Occurrences(runs[r].files, f) = 1
    /\ (Quiet /\ calls.events >= 1) => Len(batches) = 1

\* three change events for the same file were followed by one batch with
\* that file, and its run is over
C14_Witness ==
    /\ Quiet
    /\ calls.events = 3
    /\ batches = << <<"t1">> >>

\* the step submits a rerun batch that contains f
SubmitsFile(f) ==
    /\ Len(batches') = Len(batches) + 1
    /\ f \in SeqRange(batches'[Len(batches')])

\* C15: the timer callback snapshots and clears the pending changed set
\* atomically with respect to further events: a test file is never removed
\* from changedTests without being part of the batch submitted by that step
\* (files that the watch restriction or the filename pattern of the callback
\* excludes are left aside here).
C15_SnapshotAtomic ==
    [][\A f \in SeqRange(changedTests) \ SeqRange(changedTests') :
          \/ SubmitsFile(f)
          \/ watchedTests # {} /\ f \notin watchedTests
          \/ \E c \in DOMAIN frames :
                /\ frames[c].pc = "glob"
                /\ f \notin globTestFiles(graph, frames[c].pattern)]_vars

\* a first change event, then change events only while a run is in flight
ChangeDuringRun ==
    /\ calls.events = 0 \/ runs # <<>>
    /\ ChangeEvent(MaxRunEvents)

NextDuringRun == ChangeDuringRun \/ MicroStep \/ FireTimer \/ PreDone \/ RunDone

SpecDuringRun == Init /\ [][NextDuringRun]_vars

\* The watcher alone (no run requested from outside, no restart): events
\* arriving while a run is in flight arm no timeout and submit no batch
\* during it, and the next batch is the whole pending set.
WatcherAloneMergesChanges ==
    /\ [](Cardinality(DOMAIN runs) <= 1)
    /\ [](runs # <<>> => timers = <<>>)
    /\ [][/\ runs # <<>> => batches' = batches
          /\ batches' # batches =>
                /\ batches' = Append(batches, changedTests)
                /\ changedTests' = <<>>]_vars

\* two files changed during the first run and were submitted in one batch
WatcherAloneMerged ==
    /\ Len(batches) = 2
    /\ Len(batches[2]) = 2
    /\ runs # <<>>

\* C16: file-change events arriving while a run is in flight never start a
\* second run and never arm the timer before that run completes: a
\* scheduleRerun call made while a run was in flight is not resumed (to arm
\* its timeout, l.776-783) as long as that run is in flight.
C16_NoTimerBeforeRunCompletes ==
    \A f \in SeqRange(micro) :
        frames[f].kind = "scheduleRerun" => frames[f].during = {}

\* the timer callbacks (l.783-827) that have started and not returned
TimerCallbacks == {f \in DOMAIN frames : frames[f].kind = "timer"}

\* C17 (first half): at every moment at most one rerun timer is armed
OneTimerArmed == Cardinality(DOMAIN timers) <= 1

\* two scheduleRerun calls were suspended on the same run and one timer is armed
OneTimerArmedAfterTwoCalls ==
    /\ calls.events >= 2
    /\ Len(batches) = 1
    /\ Cardinality(DOMAIN timers) = 1
    /\ Len(changedTests) = 2

\* C17: at every moment at most one rerun timer is armed, and a timer
\* callback never starts while a previous timer callback is still executing.
C17_SingleTimerNoOverlappingFires ==
    /\ Cardinality(DOMAIN timers) <= 1
    /\ Cardinality(TimerCallbacks) <= 1

\* C18: the restriction is applied when the timer fires (l.785-791): while
\* watchedTests is non-empty, the files a starting timer callback takes, and
\* so every file of the batch it submits, are members of watchedTests, and
\* every pending changed test of watchedTests is taken; when watchedTests is
\* empty the callback takes every pending changed test.
C18_BatchWithinWatchedTests ==
    [][/\ \A f \in DOMAIN frames' \ DOMAIN frames :
             frames'[f].kind = "timer" =>
                /\ watchedTests # {} =>
                      /\ SeqRange(frames'[f].files) \subseteq watchedTests
                      /\ SeqRange(changedTests) \cap watchedTests
                            \subseteq SeqRange(frames'[f].files)
                /\ watchedTests = {} => frames'[f].files = changedTests
       /\ batches' # batches =>
             \E f \in DOMAIN frames' :
                 /\ frames'[f].kind = "timer"
                 /\ batches' = Append(batches, frames'[f].files)]_vars

\* t1 and t2 changed, only t1 is watched, and the batch of the fire is [t1]
C18_Witness ==
    /\ watchedTests = {"t1"}
    /\ invalidates = {"t1", "t2"}
    /\ batches = <<<<"t1">>>>
    /\ \E f \in TimerCallbacks : frames[f].pc = "pre" /\ frames[f].files = <<"t1">>

\* C19: when the timer fires (a timeout goes off: no call is made and no
\* continuation is resumed in the step) and no changed test remains after
\* restricting the pending set to the watched tests, no run is started and
\* the pending invalidation set is the same after the fire as before.
C19_EmptyFirePreservesInvalidates ==
    [][(/\ micro = <<>>
        /\ calls' = calls
        /\ DOMAIN timers' # DOMAIN timers
        /\ WatchedOnly(changedTests, watchedTests) = <<>>)
       => /\ invalidates' = invalidates
          /\ frames' = frames
          /\ runs' = runs
          /\ batches' = batches]_vars

----------------------------------------------------------------------------
(* handleFileChanged over import graphs: one project that has loaded a     *)
(* source file p, a module m and the test files t1 and t2, with any import *)
(* edges between them.                                                     *)

\* change events of one behaviour over the import graphs
MaxGraphEvents == 2

GraphOrder == <<"p", "m", "t1", "t2">>
ImportEdges ==
    {e \in SeqRange(GraphOrder) \X SeqRange(GraphOrder) : e[1] # e[2]}

\* e = <<imported, importer>>; with virtual, p is also imported by a module
\* without a file path (i.file undefined).  loaded: the files the project
\* has modules of; trig: the files matching forceRerunTriggers; known: the
\* files of the state's files map; tests: the files isTestFile accepts.
ModuleGraph(edges, virtual, loaded, trig, known, tests) ==
    [tests |-> <<tests>>,
     mods |-> <<loaded>>,
     importers |->
        <<[f \in SeqRange(GraphOrder) |->
             (IF virtual /\ f = "p" THEN <<NoFile>> ELSE <<>>)
             \o SeqFilter(GraphOrder, {i \in SeqRange(GraphOrder) :
                                         <<f, i>> \in edges})]>>,
     filesMap |-> known,
     filepaths |-> SeqFilter(GraphOrder, known),
     triggers |-> trig]

\* everything is loaded, t1 and t2 are the test files, no trigger
ImportGraph(edges, virtual) ==
    ModuleGraph(edges, virtual, SeqRange(GraphOrder), {}, {}, WatchTests)

\* the chain p <- m <- t1 with p <- t2 and the cycle m <- p
ChainEdges == {<<"p", "m">>, <<"m", "t1">>, <<"p", "t2">>, <<"m", "p">>}

\* graphs with files no project has loaded (all of them after a restart),
\* force rerun triggers and files only the state or only isTestFile knows
PartialGraphs ==
    {ModuleGraph(edges, FALSE, loaded, trig, known, tests) :
        edges \in SUBSET ChainEdges,
        loaded \in {SeqRange(GraphOrder), {"p", "m", "t1"}, {}},
        trig \in {{}, {"p"}, {"t1"}},
        known \in {{}, {"t1"}, {"t1", "t2"}},
        tests \in {{}, WatchTests}}

ImportGraphs ==
    {ImportGraph(edges, virtual) : edges \in SUBSET ImportEdges,
                                   virtual \in BOOLEAN}
    \cup PartialGraphs

InitFileChanged == InitGraph({FileArgs(<<"/", "r">>, <<"a">>, Undefined)}, ImportGraphs)


NextFileChanged == ChangeEvent(MaxGraphEvents) \/ MicroStep

SpecFileChanged == InitFileChanged /\ [][NextFileChanged]_vars

\* the files that import a file of the set directly, in some project,
\* through a module that carries a file path
DirectImporters(g, fs) ==
    {i \in GraphFiles(g) :
        \E p \in 1..Len(g.importers), f \in fs :
            f \in DOMAIN g.importers[p] /\ i \in SeqRange(g.importers[p][f])}

RECURSIVE AllImporters(_, _)
\* the files that import a file of the set directly or transitively
AllImporters(g, fs) ==
    LET more == fs \cup DirectImporters(g, fs) IN
    IF more = fs THEN fs ELSE AllImporters(g, more)

KnownTests(g) ==
    {f \in GraphFiles(g) : \E p \in 1..Len(g.tests) : IsKnownTest(g, p, f)}

\* C20: starting from empty pending sets, after handleFileChanged(p) for a
\* module p loaded by some project, every known test file that imports p
\* directly or transitively (through importer modules that carry a file
\* path, chains through another test file included) is in changedTests.
C20_ImportingTestsMarkedChanged ==
    [][\A filepath \in GraphFiles(graph) :
          LET hs == handleFileChanged(changedTests, invalidates, graph, filepath) IN
          (/\ graph.triggers = {}
           /\ changedTests = <<>>
           /\ invalidates = {}
           /\ calls'.events = calls.events + 1
           /\ changedTests' = hs.changed
           /\ invalidates' = hs.inval)
          => \A t \in KnownTests(graph) \cap AllImporters(graph, DirectImporters(graph, {filepath})) :
                 SetHas(changedTests', t)]_vars

----------------------------------------------------------------------------
(* Runs whose pool throws, next to calls from outside and a watcher event. *)

\* runFiles, collectFiles and rerunFiles calls of one behaviour with a
\* throwing pool
MaxPoolCalls == 2
\* change events of one behaviour with a throwing pool
MaxPoolEvents == 1

NextPool ==
    \/ RunFilesCall(MaxPoolCalls) \/ RerunFilesCall(MaxPoolCalls)
    \/ ChangeEvent(MaxPoolEvents) \/ FireTimer
    \/ PreDone \/ MicroStep \/ PoolThrows \/ RunDone

SpecPool == Init /\ [][NextPool]_vars

\* C21: when pool.runTests or pool.collectTests throws, the error is stored
\* in the state's unhandled errors; the promise returned by runFiles /
\* collectFiles still resolves (no call is ever rejected); when the run ends
\* runningPromise is reset to undefined; and the watch loop is not blocked:
\* runningPromise is undefined or a run in flight, and every call suspended
\* on a run promise is a waiter of a run in flight or is about to resume.
C21_PoolThrowIsCaught ==
    /\ [][\A r \in DOMAIN runs \cap DOMAIN runs' :
            (runs[r].error = "none" /\ runs'[r].error # "none")
            => /\ runs'[r].error = "caught"
               /\ "Unhandled Error" \in SeqRange(unhandledErrors')]_vars
    /\ []("rejected" \notin SeqRange(settled))
    /\ [](\A f \in DOMAIN frames : ~frames[f].rejected)
    /\ [][DOMAIN runs' \subseteq DOMAIN runs /\ DOMAIN runs' # DOMAIN runs
          => runningPromise' = NoPromise]_vars
    /\ [](runningPromise # NoPromise => runningPromise \in DOMAIN runs)
    /\ [](\A f \in DOMAIN frames :
            frames[f].pc \in {"awaitRunning", "awaitRun"}
            => \/ f \in SeqRange(micro)
               \/ \E r \in DOMAIN runs : f \in SeqRange(runs[r].waiters))

\* the run of a call from outside threw and the call resolved; a file change
\* afterwards has started the run in flight
C21_Witness ==
    /\ calls.throws = 1
    /\ "resolved" \in SeqRange(settled)
    /\ micro = <<>>
    /\ Len(batches) = 1
    /\ Cardinality(DOMAIN runs) = 1
    /\ \A r \in DOMAIN runs : runs[r].error = "none"
    /\ \A f \in DOMAIN frames : frames[f].kind = "timer" /\ frames[f].pc = "awaitRun"

----------------------------------------------------------------------------
(* Frame of interpretTaskModes on Task.result *)

\* C22: a call of interpretTaskModes writes the result of a task only if the
\* task's mode was `only` and allowOnly is false: with allowOnly = true no
\* result is set or changed, and with allowOnly = false the result of every
\* task whose mode was not `only`, the File included, is unchanged.
C22_ResultWrittenOnlyForOnly ==
    [][(pc = "collect" /\ pc' = "interpreted") =>
          /\ allowOnly' => result' = result
          /\ \A o \in Objs :
                result'[o] # result[o] =>
                   /\ mode[o] = "only"
                   /\ ~allowOnly'
                   /\ o # File
                   /\ result'[o] = OnlyError]_vars

\* with allowOnly off an only task got the failure result while a run task
\* beside it has none
C22_Witness ==
    /\ Interpreted /\ onlyMode /\ ~allowOnly
    /\ result[File] = NoResult
    /\ \E t, u \in Tasks :
         /\ declared[t] = "only" /\ result[t] = OnlyError
         /\ declared[u] = "run" /\ result[u] = NoResult

----------------------------------------------------------------------------
(* Properties of handleFileChanged, for every file the watcher can report  *)
(* in every reachable state of the pending sets                            *)

\* how many importer entries the graph has
RECURSIVE SumLen(_, _)
SumLen(f, dom) ==
    IF dom = {} THEN 0
    ELSE LET x == CHOOSE y \in dom : TRUE IN Len(f[x]) + SumLen(f, dom \ {x})

\* C23: handleFileChanged terminates for every importer graph, with import
\* cycles and importers without file metadata: a call that walks importers
\* (recurses) was made for a file not in invalidates and has added it, no
\* two walking calls are for the same file, no call is made for an importer
\* without a file, and the number of calls is at most one more than the
\* number of importer entries of the graph.
C23_HandleFileChangedTerminates ==
    \A filepath \in WatchedFiles(graph) :
        LET hs == handleFileChanged(changedTests, invalidates, graph, filepath)
            tr == hs.trace
        IN  /\ \A k \in 1..Len(tr) :
                  /\ tr[k].file # NoFile
                  /\ tr[k].walks =>
                        /\ tr[k].fresh
                        /\ tr[k].file \in hs.inval \ invalidates
                        /\ \A j \in 1..(k - 1) :
                              tr[j].walks => tr[j].file # tr[k].file
            /\ Len(tr) <= 1 + SumLen(graph.importers[1], DOMAIN graph.importers[1])

\* p and m import each other, p is also imported by a module without a
\* file, and a change of one of them has invalidated both
C23_Witness ==
    /\ calls.events = 1
    /\ graph.importers[1]["p"] = <<NoFile, "m">>
    /\ graph.importers[1]["m"] = <<"p">>
    /\ invalidates = {"p", "m"}

\* filepath is already marked changed or invalidated
Pending(filepath) ==
    filepath \in SeqRange(changedTests) \/ filepath \in invalidates

\* C24: handleFileChanged(p) called when p is already in changedTests or in
\* invalidates returns the empty list and leaves changedTests and
\* invalidates unchanged.
C24_PendingShortCircuit ==
    \A filepath \in WatchedFiles(graph) :
        LET hs == handleFileChanged(changedTests, invalidates, graph, filepath) IN
        Pending(filepath) =>
            /\ hs.files = <<>>
            /\ hs.changed = changedTests
            /\ hs.inval = invalidates

\* nothing imports anything; t1 changed twice and the second event left the
\* pending sets as the first made them and scheduled nothing
C24_Witness ==
    /\ calls.events = 2
    /\ graph = ImportGraph({}, FALSE)
    /\ changedTests = <<"t1">>
    /\ invalidates = {"t1"}
    /\ Cardinality(DOMAIN frames) + Cardinality(DOMAIN timers) = 1

\* C25: when the changed path matches a force rerun trigger and is not
\* already pending, handleFileChanged adds every test file known to the
\* state to changedTests (keeping what was there, once each), returns
\* exactly [path], and does not walk the importer graph (one call, nothing
\* added to invalidates).
C25_ForceRerunTrigger ==
    \A filepath \in WatchedFiles(graph) :
        LET hs == handleFileChanged(changedTests, invalidates, graph, filepath) IN
        (filepath \in graph.triggers /\ ~Pending(filepath)) =>
            /\ hs.files = <<filepath>>
            /\ SeqRange(hs.changed) = SeqRange(changedTests) \cup graph.filesMap
            /\ Len(hs.changed) = Cardinality(SeqRange(hs.changed))
            /\ SubSeq(hs.changed, 1, Len(changedTests)) = changedTests
            /\ hs.inval = invalidates
            /\ Len(hs.trace) = 1

\* p is a trigger imported by m; its change marked the two files the state
\* knows and invalidated nothing
C25_Witness ==
    /\ calls.events = 1
    /\ graph.triggers = {"p"}
    /\ graph.filesMap = {"t1", "t2"}
    /\ graph.importers[1]["p"] = <<"m">>
    /\ "p" \in graph.mods[1]
    /\ changedTests = <<"t1", "t2">>
    /\ invalidates = {}
    /\ \E f \in DOMAIN frames : frames[f].files = <<"p">>

\* C26: when no project has the changed file loaded as a module (and it is
\* neither pending nor a trigger), handleFileChanged falls back to the
\* test-file classification: a file of the state's files map or one some
\* project classifies as a test file is added to changedTests and [path] is
\* returned; otherwise the empty list is returned and changedTests is
\* unchanged.  invalidates is unchanged in both cases.
C26_NoProjectFallback ==
    \A filepath \in WatchedFiles(graph) :
        LET hs == handleFileChanged(changedTests, invalidates, graph, filepath) IN
        (/\ getModuleProjects(graph, filepath) = {}
         /\ filepath \notin graph.triggers
         /\ ~Pending(filepath)) =>
            /\ hs.inval = invalidates
            /\ IF \/ filepath \in graph.filesMap
                  \/ \E p \in 1..Len(graph.tests) : filepath \in graph.tests[p]
               THEN /\ hs.changed = Append(changedTests, filepath)
                    /\ hs.files = <<filepath>>
               ELSE /\ hs.changed = changedTests
                    /\ hs.files = <<>>

\* no module is loaded; the change of t2, a test file by classification
\* only, marked it, and the change of p, not a test file, did nothing
C26_Witness ==
    /\ calls.events = 2
    /\ graph.mods[1] = {}
    /\ graph.filesMap = {}
    /\ graph.tests[1] = WatchTests
    /\ graph.triggers = {}
    /\ changedTests = <<"t2">>
    /\ invalidates = {}
    /\ Cardinality(DOMAIN frames) + Cardinality(DOMAIN timers) = 1

----------------------------------------------------------------------------
(* Cancellation: onCancel, cancelCurrentRun and the reset at a run's start *)

\* runFiles / collectFiles calls in one behaviour with cancellation
MaxCancelCalls == 3

\* listeners registered in one behaviour
MaxListeners == 2

\* cancelCurrentRun calls in one behaviour
MaxCancels == 2

SpliceNone(arr) == [removed |-> arr, rest |-> arr]

\* arr.splice(0): every element is removed from the array and returned
SpliceAll(arr) == [removed |-> arr, rest |-> <<>>]

\* onCancel(fn): this._onCancelListeners.push(fn); the listener is named by
\* the number of its registration
OnCancel ==
    /\ micro = <<>>
    /\ calls.listeners < MaxListeners
    /\ calls' = [calls EXCEPT !.listeners = @ + 1]
    /\ onCancelListeners' = ArrayPush(onCancelListeners, calls.listeners + 1)
    /\ registered' = Append(registered, calls.listeners + 1)
    /\ UNCHANGED <<invalidates, changedTests, watchedTests, filenamePattern,
                   runningPromise, restartsCount, rerunTimer, timers, graph,
                   frames, micro, runs, batches, collectVars, unhandledErrors,
                   isCancelling, invoked, settled>>

\* cancelCurrentRun(reason): the flag is set, the listeners are taken out of
\* the array and each is called; the call then awaits what they returned
CancelCurrentRun ==
    /\ micro = <<>>
    /\ calls.cancels < MaxCancels
    /\ calls' = [calls EXCEPT !.cancels = @ + 1]
    /\ isCancelling' = TRUE
    /\ LET spliced == SpliceAll(onCancelListeners) IN
       /\ onCancelListeners' = spliced.rest
       /\ invoked' = invoked \o spliced.removed
    /\ UNCHANGED <<invalidates, changedTests, watchedTests, filenamePattern,
                   runningPromise, restartsCount, rerunTimer, timers, graph,
                   frames, micro, runs, batches, collectVars, unhandledErrors,
                   settled, registered>>

NextCancel ==
    \/ RunFilesCall(MaxCancelCalls)
    \/ PreDone \/ MicroStep \/ RunDone
    \/ OnCancel \/ CancelCurrentRun

SpecCancel == Init /\ [][NextCancel]_vars

\* a step of cancelCurrentRun
CancelStep == calls'.cancels # calls.cancels

\* a step in which runFiles or collectFiles starts its run
StartStep == \E r \in DOMAIN runs' : r \notin DOMAIN runs

\* C27: cancelCurrentRun sets isCancelling and invokes every listener
\* registered since the current (last started) run started and not invoked
\* before, each once, and leaves the list empty, so that a second
\* cancelCurrentRun invokes none; no listener is ever invoked twice; a run
\* started by runFiles or collectFiles begins with isCancelling false and
\* an empty listener list.
C27_CancelInvokesListenersOnce ==
    /\ [][CancelStep =>
            /\ isCancelling'
            /\ invoked' = invoked \o SeqFilter(registered, {i \in SeqRange(registered) : i \notin SeqRange(invoked)})
            /\ onCancelListeners' = <<>>]_vars
    /\ [][(CancelStep /\ onCancelListeners = <<>>) => invoked' = invoked]_vars
    /\ [](Len(invoked) = Cardinality(SeqRange(invoked)))
    /\ [][StartStep => (~isCancelling' /\ onCancelListeners' = <<>>)]_vars

\* two listeners registered during a run, the first invoked by a first
\* cancelCurrentRun and the second by a second one
C27_Witness ==
    /\ DOMAIN runs # {}
    /\ calls.cancels = 2
    /\ invoked = <<1, 2>>
    /\ isCancelling
    /\ onCancelListeners = <<>>
    /\ registered = <<1, 2>>

----------------------------------------------------------------------------
(* The order of the steps that finish a File in collectTests *)

\* every task has the id calculateSuiteHash gives it
AllHashed ==
    \A t \in Tasks :
        id[t] = id[Parent(t)] \o <<"_">> \o NumberToString(IndexInParent(t))

\* C29: for every file of a collection pass, whether or not its collection
\* threw, the finishing steps happen once each and in this order: all tasks
\* are appended (no id is set and no mode interpreted while tasks are
\* appended, and none is appended afterwards), then calculateSuiteHash, then
\* the back-reference to the default suite is deleted from the top-level
\* tasks (and from no other task), then onlyMode is computed as "some task
\* at any depth has mode only", then interpretTaskModes runs with
\* parentIsOnly = false on the stripped tree (so a name pattern sees the
\* names without the default suite), then the file is pushed.
C29_FinishingStepsInOrder ==
    /\ [](pc \in {"setup", "import", "tasks", "tried"} =>
            \A t \in Tasks :
               /\ id[t] = NoString
               /\ mode[t] = declared[t]
               /\ t \in Children(File) => suite[t] = DefaultSuite)
    /\ [][(pc \in {"tried", "stripped", "pushed"} /\ pc' # "setup")
             => (tasks' = tasks)]_vars
    /\ [][(pc = "tried" /\ pc' # pc) => (pc' = "stripped")]_vars
    /\ [][(pc = "stripped" /\ pc' # pc) => (pc' = "pushed")]_vars
    /\ [][(pc' = "pushed" /\ pc' # pc) => (pc = "stripped")]_vars
    /\ [](pc \in {"stripped", "pushed", "returned"} =>
            /\ AllHashed
            /\ \A t \in Tasks :
                  suite[t] = IF t \in Children(File) THEN NoSuite ELSE Parent(t))
    /\ [](pc = "stripped" =>
            /\ \A t \in Tasks : mode[t] = declared[t]
            /\ Len(files) < Len(paths))
    /\ [][(pc = "stripped" /\ pc' = "pushed") =>
            /\ onlyMode' = (\E t \in Tasks : declared[t] = "only")
            /\ mode' = interpretTaskModes(
                          [mode |-> declared, result |-> result, reached |-> {}],
                          File, namePattern, onlyMode', FALSE, allowOnly).mode
            /\ Len(files') = Len(files) + 1
            /\ SubSeq(files', 1, Len(files)) = files]_vars
    /\ [](Pushed =>
            /\ \A t \in Tasks : mode[t] # "only"
            /\ namePattern = <<" ", "A">> =>
                  \A t \in Children(File) : type[t] = "test" => mode[t] = "skip")

\* a file whose collection threw after a suite holding an only test had been
\* appended was hashed, stripped, interpreted in only mode and pushed
C29_Witness ==
    /\ Pushed
    /\ thrown.phase = "collect"
    /\ onlyMode
    /\ \E s \in Children(File) :
          /\ type[s] = "suite"
          /\ suite[s] = NoSuite
          /\ \E t \in Children(s) : declared[t] = "only" /\ mode[t] = "run"
    /\ AllHashed

----------------------------------------------------------------------------
(* The top-level tasks of a File *)

\* a task of the File as the entry that was registered: its type, declared
\* mode, name, number of tasks and the declared mode of its test
TaskShape(o) ==
    [type |-> type[o], mode |-> declared[o], name |-> name[o],
     tasks |-> Len(tasks[o]),
     child |-> IF tasks[o] = <<>> THEN "run" ELSE declared[tasks[o][1]]]

\* what the entries es, numbered from k + 1 on, leave in the File: the
\* tasks and the owners of the merged hooks
RECURSIVE ExpectedOf(_, _)
ExpectedOf(es, k) ==
    IF es = <<>> THEN [top |-> <<>>, hooks |-> <<>>]
    ELSE LET c == Head(es)
             rest == ExpectedOf(Tail(es), k + 1)
         IN  IF c.type # "collector"
             THEN [rest EXCEPT !.top = <<c>> \o @]
             ELSE IF c.name = NoString /\ c.tasks = 0
             THEN rest
             ELSE [top |-> <<[c EXCEPT !.type = "suite"]>> \o rest.top,
                   hooks |-> <<k + 1>> \o rest.hooks]

\* C30: the top-level tasks of a File are what the loop has taken so far of
\* the default suite's tasks followed by the context's tasks, in that
\* order: a test, custom task or suite as it is, a collector as the suite
\* it resolves to exactly when that suite has a name or a task; the file's
\* hooks are the default suite's followed by those of the collectors that
\* were kept; a try block that does not throw takes every entry.
C30_TopLevelTasksInRegistrationOrder ==
    LET ctx == collectorContext
        all == ctx.defaultTasks \o ctx.tasks
        expected == ExpectedOf(SubSeq(all, 1, ctx.index), 0)
    IN
    /\ pc \in {"setup", "import"} => tasks[File] = <<>>
    /\ pc \in {"tasks", "tried", "stripped", "pushed", "returned"} =>
          /\ ctx.index <= Len(all)
          /\ Len(tasks[File]) = Len(expected.top)
          /\ \A i \in 1..Len(tasks[File]) :
                TaskShape(tasks[File][i]) = expected.top[i]
          /\ thrown.phase \in {"none", "collect"} =>
                ctx.fileHooks = <<0>> \o expected.hooks
    /\ (pc \in {"tried", "stripped", "pushed", "returned"} /\ thrown = NoThrow) =>
          ctx.index = Len(all)

\* the default suite held a nameless collector without tasks and the context
\* a named one without tasks: the File has the one suite and its hooks
C30_Witness ==
    /\ Pushed
    /\ thrown = NoThrow
    /\ Len(collectorContext.defaultTasks) = 1
    /\ collectorContext.defaultTasks[1].type = "collector"
    /\ collectorContext.defaultTasks[1].name = NoString
    /\ collectorContext.defaultTasks[1].tasks = 0
    /\ Len(collectorContext.tasks) = 1
    /\ collectorContext.tasks[1].type = "collector"
    /\ collectorContext.tasks[1].name = <<"A">>
    /\ collectorContext.tasks[1].tasks = 0
    /\ Len(tasks[File]) = 1
    /\ collectorContext.fileHooks = <<0, 2>>

----------------------------------------------------------------------------
(* What interpretTaskModes leaves of the declared modes *)

\* C31: after interpretTaskModes is applied to a File with onlyMode =
\* someTasksAreOnly(file), no task at any depth still has mode only.
C31_NoOnlyLeft ==
    (Interpreted /\ (onlyMode <=> DeclaredHasOnly)) =>
        \A t \in Tasks : mode[t] # "only"

\* C32: interpretTaskModes moves a mode only from only to run, from run to
\* skip, and to skip for a test whose name fails the pattern: a task
\* declared run ends run or skip, a task declared only ends only, run or
\* skip, a task declared skip ends skip, and a task declared todo ends todo
\* unless it is a test whose name fails the pattern, which may end skip.
C32_ModesMoveOneWay ==
    Interpreted =>
        \A t \in Tasks :
            \/ mode[t] = declared[t]
            \/ declared[t] = "only" /\ mode[t] \in {"run", "skip"}
            \/ declared[t] = "run" /\ mode[t] = "skip"
            \/ type[t] = "test" /\ NameFails(t) /\ mode[t] = "skip"

\* under a pattern a test declared todo was skipped for its name, next to a
\* test declared only that ended run and a suite declared todo that stayed
C32_Witness ==
    /\ Interpreted
    /\ namePattern # NoString
    /\ \E t \in Tasks : type[t] = "test" /\ declared[t] = "todo" /\ mode[t] = "skip"
    /\ \E t \in Tasks : declared[t] = "only" /\ mode[t] = "run"
    /\ \E t \in Tasks : type[t] = "suite" /\ declared[t] = "todo" /\ mode[t] = "todo"

\* C33: with onlyMode = false and no name pattern, interpretTaskModes leaves
\* the mode of every test and custom task without an ancestor suite declared
\* skip as it was declared; a mode it changes is that of a task declared run
\* below a suite declared skip, or that of a suite (the File included)
\* declared run that has children of which none ends run, and it becomes
\* skip.
C33_FrameWithoutOnlyAndPattern ==
    (Interpreted /\ ~onlyMode /\ namePattern = NoString) =>
        \A t \in Objs :
            LET belowSkip == \E a \in Ancestors(t) : declared[a] = "skip" IN
            /\ (type[t] \in {"test", "custom"} /\ ~belowSkip) =>
                  mode[t] = declared[t]
            /\ mode[t] # declared[t] =>
                  /\ declared[t] = "run"
                  /\ mode[t] = "skip"
                  /\ \/ belowSkip
                     \/ /\ type[t] = "suite"
                        /\ tasks[t] # <<>>
                        /\ \A c \in Children(t) : mode[c] # "run"

\* a test below a suite declared skip was skipped, a custom task beside the
\* suite kept its mode
C33_Witness ==
    /\ Interpreted /\ ~onlyMode /\ namePattern = NoString
    /\ \E s \in Children(File) :
          /\ declared[s] = "skip"
          /\ \E t \in Children(s) :
                type[t] = "test" /\ declared[t] = "run" /\ mode[t] = "skip"
    /\ \E c \in Children(File) : type[c] = "custom" /\ mode[c] = "run"

----------------------------------------------------------------------------
(* A change after filename patterns came and went *)

\* watcher events of one behaviour with pattern changes
MaxPatternEvents == 2

\* changeFilenamePattern calls of one behaviour
MaxPatternCalls == 2

NextPattern ==
    \/ ChangeEvent(MaxPatternEvents) \/ ChangeFilenamePatternCall(MaxPatternCalls)
    \/ FireTimer \/ GlobDone \/ PreDone \/ MicroStep \/ RunDone

SpecPattern == Init /\ [][NextPattern]_vars

\* the step is onChange(filepath): the pending sets become what
\* handleFileChanged makes of them, and a rerun is scheduled exactly when it
\* returns files
ChangeStepOf(filepath) ==
    LET hs == handleFileChanged(changedTests, invalidates, graph, filepath) IN
    /\ calls'.events = calls.events + 1
    /\ changedTests' = hs.changed
    /\ invalidates' = hs.inval
    /\ (hs.files = <<>>) <=> (frames' = frames)

\* without a further event a run of filepath is still to come: the file is
\* in changedTests and a rerun of this server instance is scheduled or
\* armed, or a call that has not started its run yet holds the file (and
\* the file passes the filter the call is waiting for)
OnTheWay(filepath) ==
    \/ /\ filepath \in SeqRange(changedTests)
       /\ \/ \E h \in DOMAIN timers : timers[h].count = restartsCount
          \/ \E f \in DOMAIN frames :
                /\ frames[f].kind = "scheduleRerun"
                /\ frames[f].count = restartsCount
    \/ \E f \in DOMAIN frames :
          /\ frames[f].kind # "scheduleRerun"
          /\ frames[f].pc \in {"glob", "pre", "awaitRunning"}
          /\ filepath \in SeqRange(frames[f].files)
          /\ frames[f].pc = "glob" =>
                filepath \in globTestFiles(graph, frames[f].pattern)

\* C34: a change event for a known test file, with no watch restriction and
\* no filename pattern active at that time, leaves a run of the file on its
\* way whatever happened before: the change is never dropped because the
\* file was left in changedTests or invalidates by earlier events.
C34_ChangeLeadsToBatch ==
    [][\A filepath \in WatchTests :
          (/\ ChangeStepOf(filepath)
           /\ filenamePattern = NoPattern
           /\ watchedTests = {})
          => OnTheWay(filepath)']_vars

----------------------------------------------------------------------------
(* Files added and removed while the watcher runs *)

\* watcher add and unlink events of one behaviour
MaxUnlinkEvents == 3

\* the paths the add and unlink events are about: the test files and a
\* source file no project takes for a test
UnlinkFiles == WatchTests \cup {"m"}

\* t2 was not there when the server started: no project lists it, nothing
\* loads it and it has no cached result
NewFileGraph ==
    [tests |-> <<{"t1"}>>,
     mods |-> <<{"t1"}>>,
     importers |-> <<[f \in {"t1"} |-> <<>>]>>,
     filesMap |-> {"t1"},
     filepaths |-> <<"t1">>,
     triggers |-> {}]

InitUnlink ==
    InitGraph({FileArgs(<<"/", "r">>, <<"a">>, Undefined)},
              {WatchGraph, NewFileGraph})

\* project.isTargetFile(id): the path matches the include globs of the project
isTargetFile(project, filepath) == filepath \in WatchTests

\* this.changedTests.delete(id)
SetDelete(set, x) == SeqFilter(set, SeqRange(set) \ {x})

\* watcher.on('unlink', onUnlink)
OnUnlink(maxEvents) ==
    /\ micro = <<>>
    /\ calls.events < maxEvents
    /\ \E filepath \in UnlinkFiles :
         /\ invalidates' = invalidates \cup {filepath}
         /\ IF filepath \in graph.filesMap
            THEN /\ graph' = [graph EXCEPT
                              !.filesMap = @ \ {filepath},
                              !.filepaths = SetDelete(@, filepath)]
                 /\ changedTests' = SetDelete(changedTests, filepath)
            ELSE UNCHANGED <<graph, changedTests>>
         /\ calls' = [calls EXCEPT !.events = @ + 1,
                                   !.unlinked = @ \cup {filepath}]
    /\ UNCHANGED <<watchedTests, filenamePattern, runningPromise, restartsCount,
                   rerunTimer, timers, frames, micro, runs, batches, collectVars,
                   poolVars>>

\* watcher.on('add', onAdd) up to await Promise.all(...)
OnAdd(maxEvents) ==
    /\ micro = <<>>
    /\ calls.events < maxEvents
    /\ \E filepath \in UnlinkFiles :
         /\ frames' = (FreeFrame :> Frame("add", "isTarget", <<filepath>>,
                                          restartsCount, NoPattern)) @@ frames
         /\ calls' = [calls EXCEPT !.events = @ + 1,
                                   !.unlinked = @ \ {filepath}]
    /\ UNCHANGED <<invalidates, changedTests, watchedTests, filenamePattern,
                   runningPromise, restartsCount, rerunTimer, timers, graph,
                   micro, runs, batches, collectVars, poolVars>>

\* the projects have answered isTargetFile: onAdd from there to its end
AddDone ==
    /\ micro = <<>>
    /\ \E a \in DOMAIN frames :
         LET filepath == frames[a].files[1]
             matchingProjects ==
                 {p \in 1..Len(graph.tests) : isTargetFile(p, filepath)}
             needsRerun ==
                 handleFileChanged(changedTests, invalidates, graph, filepath)
         IN
         /\ frames[a].kind = "add"
         /\ frames[a].pc = "isTarget"
         /\ IF matchingProjects # {}
            THEN /\ graph' = [graph EXCEPT !.tests =
                        [p \in 1..Len(graph.tests) |->
                            IF p \in matchingProjects
                            THEN graph.tests[p] \cup {filepath}
                            ELSE graph.tests[p]]]
                 /\ changedTests' = SetAdd(changedTests, filepath)
                 /\ UNCHANGED invalidates
                 /\ ScheduleRerunFrom(Without(frames, a), <<filepath>>)
            ELSE /\ changedTests' = needsRerun.changed
                 /\ invalidates' = needsRerun.inval
                 /\ UNCHANGED graph
                 /\ IF needsRerun.files # <<>>
                    THEN ScheduleRerunFrom(Without(frames, a), needsRerun.files)
                    ELSE /\ frames' = Without(frames, a)
                         /\ UNCHANGED <<timers, micro, runs>>
    /\ UNCHANGED <<watchedTests, filenamePattern, runningPromise, restartsCount,
                   rerunTimer, batches, calls, collectVars, poolVars>>

NextUnlink ==
    \/ OnAdd(MaxUnlinkEvents) \/ AddDone \/ OnUnlink(MaxUnlinkEvents)
    \/ FireTimer \/ PreDone \/ MicroStep \/ RunDone

SpecUnlink == InitUnlink /\ [][NextUnlink]_vars

\* C35: a file that was unlinked, with no add event for it since, is not in
\* changedTests, and no batch that starts from then on contains it, whether
\* or not an add handler for the file was still waiting when it was unlinked.
C35_UnlinkedStaysOut ==
    /\ [](\A filepath \in calls.unlinked :
             filepath \notin SeqRange(changedTests))
    /\ [][(batches' # batches) =>
             (\A filepath \in calls.unlinked :
                 filepath \notin SeqRange(batches'[Len(batches')]))]_vars

----------------------------------------------------------------------------
(* A name pattern set while results are cached *)

\* changeNamePattern calls of one behaviour
MaxNameCalls == 1

\* the path whose File is the collected tree; the other path has no result yet
CachedPath == "t1"

\* this.state.getFiles([filepath])
getFiles(filepath) ==
    IF filepath = CachedPath /\ pc = "interpreted" THEN {File} ELSE {}

\* getTasks(file): the file and every task below it
getTasks(file) == {file} \cup Descendants(file)

\* the callback of files.filter in changeNamePattern
KeepsFile(filepath, testNamePattern) ==
    \/ getFiles(filepath) = {}
    \/ \E file \in getFiles(filepath) :
          \/ getTasks(file) = {}
          \/ \E task \in getTasks(file) : Contains(name[task], testNamePattern)

\* the files changeNamePattern(pattern) hands to rerunFiles
NamePatternFiles(pattern) ==
    IF pattern # NoString
    THEN SeqFilter(graph.filepaths,
                   {filepath \in SeqRange(graph.filepaths) :
                       KeepsFile(filepath, pattern)})
    ELSE graph.filepaths

\* changeNamePattern(pattern) up to the first await of rerunFiles; the
\* override of config.testNamePattern is read by the workers of the run
ChangeNamePatternCall(maxCalls) ==
    /\ ApiCall(maxCalls)
    /\ \E pattern \in NamePatterns :
         LET newFilenamePattern ==
                 IF pattern = NoString THEN NoPattern ELSE filenamePattern IN
         /\ filenamePattern' = newFilenamePattern
         /\ RerunFiles(NamePatternFiles(pattern), newFilenamePattern)
    /\ UNCHANGED <<invalidates, changedTests, watchedTests, runningPromise,
                   restartsCount, rerunTimer, timers, graph, micro, runs,
                   batches, collectVars, poolVars>>

NextChangeName ==
    \/ RegisterNamed \/ InterpretNamed \/ ChangeNamePatternCall(MaxNameCalls)
    \/ PreDone \/ MicroStep \/ RunDone

SpecChangeName == Init /\ [][NextChangeName]_vars

\* interpretTaskModes with the pattern, on the file as declared, leaves a
\* test to run
RunnableUnder(pattern) ==
    LET st == interpretTaskModes(
                  [mode |-> declared, result |-> [o \in Objs |-> NoResult],
                   reached |-> {}],
                  File, pattern, someTasksAreOnlyIn(declared, File), FALSE, FALSE)
    IN  \E t \in Tasks : type[t] = "test" /\ st.mode[t] = "run"

\* the files of the call the step has started
StartedFiles ==
    frames'[CHOOSE f \in DOMAIN frames' : f \notin DOMAIN frames].files

\* the step is changeNamePattern(pattern) with a result cached for CachedPath
ChangeNameStepOf(pattern) ==
    /\ calls'.api = calls.api + 1
    /\ pc = "interpreted"
    /\ DOMAIN frames' # DOMAIN frames
    /\ StartedFiles = NamePatternFiles(pattern)

\* C36: changeNamePattern(pattern) reruns the cached file whenever
\* interpretTaskModes under that pattern would leave one of its tests to run,
\* that is, whenever the full name of a runnable test matches the pattern.
C36_RunnableFileIsRerun ==
    [][\A pattern \in NamePatterns \ {NoString} :
          (ChangeNameStepOf(pattern) /\ RunnableUnder(pattern))
          => (CachedPath \in SeqRange(StartedFiles))]_vars

----------------------------------------------------------------------------
(* What changedTests holds *)

InitKnown ==
    InitGraph({FileArgs(<<"/", "r">>, <<"a">>, Undefined)}, PartialGraphs)

NextKnown ==
    \/ ChangeEvent(MaxGraphEvents) \/ OnAdd(MaxGraphEvents) \/ AddDone
    \/ SetServer \/ FireTimer \/ PreDone \/ MicroStep \/ RunDone

SpecKnown == InitKnown /\ [][NextKnown]_vars

\* the path is in the state's files map or a test file of some project
IsKnown(g, filepath) ==
    \/ filepath \in g.filesMap
    \/ \E p \in 1..Len(g.tests) : filepath \in g.tests[p]

\* C37: in every reachable state each path of changedTests is in the
\* state's files map or is a test file of some project.
C37_ChangedTestsAreKnown ==
    \A i \in 1..Len(changedTests) : IsKnown(graph, changedTests[i])

----------------------------------------------------------------------------
(* handleFileChanged with two projects *)

\* two projects over the same files: the first has loaded all of them, both
\* have import edges of their own, and each has its own test files
ProjectGraphs ==
    {LET g1 == ModuleGraph(e1, FALSE, SeqRange(GraphOrder), trig, known, tests1)
         g2 == ModuleGraph(e2, FALSE, loaded2, trig, known, tests2)
     IN  [g1 EXCEPT !.tests = @ \o g2.tests,
                    !.mods = @ \o g2.mods,
                    !.importers = @ \o g2.importers] :
        e1 \in SUBSET ChainEdges, e2 \in SUBSET ChainEdges,
        loaded2 \in {SeqRange(GraphOrder), {"p", "m", "t1"}},
        trig \in {{}, {"m"}},
        known \in {{}, {"t1"}},
        tests1 \in {{}, WatchTests},
        tests2 \in {WatchTests, WatchTests \cup {"p"}}}

InitProjects ==
    InitGraph({FileArgs(<<"/", "r">>, <<"a">>, Undefined)}, ProjectGraphs)

SpecProjects == InitProjects /\ [][NextFileChanged]_vars

\* C38: handleFileChanged(p) returns the empty list or [p], whatever the
\* pending sets are and however many projects load p or importers need a
\* rerun, and so does every scheduleRerun call that onChange made with it.
C38_EmptyOrTheChangedPath ==
    /\ \A filepath \in WatchedFiles(graph) :
          handleFileChanged(changedTests, invalidates, graph, filepath).files
              \in {<<>>, <<filepath>>}
    /\ \A f \in DOMAIN frames :
          frames[f].kind = "scheduleRerun" => Len(frames[f].files) = 1

\* p is a test file of the second project and, in the first, imported by
\* t2 and through m by t1: both projects pushed p, the change of p was
\* scheduled with [p]
C38_Witness ==
    /\ Cardinality(getModuleProjects(graph, "p")) = 2
    /\ "p" \in graph.tests[2]
    /\ "p" \notin graph.tests[1]
    /\ {"m", "t2"} \subseteq SeqRange(graph.importers[1]["p"])
    /\ changedTests = <<"t1", "t2", "p">>
    /\ \E f \in DOMAIN frames :
          /\ frames[f].kind = "scheduleRerun"
          /\ frames[f].files = <<"p">>

====
